---- MODULE Spec2Model ----
(***************************************************************************)
(* The content scraping engine of nocode_scraping (backend scraping        *)
(* module): validateSelector, clickElement, loadPage and getContent.       *)
(*                                                                         *)
(* Every `await` of the code is a suspension point: an action of the model *)
(* is the resumption of one request after an awaited external operation    *)
(* (grammar checker, browser, cache, file system) has produced an outcome, *)
(* followed by the synchronous code that runs up to the next await.        *)
(*                                                                         *)
(* The frontend components SelectorConfig, CSSSelector and                 *)
(* ScrapingConfigurator and the socket wrapper validateCssSelector have    *)
(* specifications of their own, in which the engine does not move.         *)
(***************************************************************************)
EXTENDS Integers, Sequences, FiniteSets, TLC

(***************************************************************************)
(* Values                                                                  *)
(***************************************************************************)
\* JavaScript `undefined` in a string-valued position
Undef == "<undefined>"
\* JavaScript `undefined` in an object-valued position
UNDEFINED == [undefined |-> "undefined"]
\* JavaScript `null` returned by textContent()
Null == "<null>"

\* the request slots that may be in flight
Reqs == {1, 2}

\* bound on the length of req.clickBefore
MaxClicks == 2

GoodPath == ".a-good-selector"
BadPath == ".a-bad-selector"
PopupPath == ".a-popup-selector"
EmptyPath == ""

\* template-literal conversion `${v}` of a string or undefined
ToStr(v) == IF v = Undef THEN "undefined" ELSE v

\* the rule texts the W3C grammar checker accepts (result.valid = true)
ValidRules ==
  {".a-good-selector {}", ".a-popup-selector {}", "undefined {}"}

\* the rule submitted to the checker for a selector path
RuleText(path) == ToStr(path) \o " {}"

\* verdict of cssValidator.validateText when it runs cleanly
CheckerAccepts(text) == text \in ValidRules

SelectorStatus == [VALID |-> "valid", INVALID |-> "invalid"]

ScrapingStatus ==
  [SUCCESS |-> "success", ERROR |-> "error", NO_CONTENT |-> "no_content",
   ELEMENT_NOT_FOUND |-> "element_not_found",
   INVALID_SELECTOR |-> "invalid_selector"]

GenericResponseStatus == [SUCCESS |-> "success", ERROR |-> "error"]

DataSelector(path, language, status) ==
  [path |-> path, language |-> language, status |-> status]

ScrapingError(status, selector) ==
  [class |-> "ScrapingError", status |-> status, selector |-> selector]

ScrapedContent(content, selector, screenshot) ==
  [class |-> "ScrapedContent", status |-> ScrapingStatus.SUCCESS,
   content |-> content, selector |-> selector, screenshot |-> screenshot]

DataSelectorValidityResponse(selector) ==
  [class |-> "DataSelectorValidityResponse",
   status |-> GenericResponseStatus.SUCCESS, selector |-> selector]

DataSelectorValidityError(selector) ==
  [class |-> "DataSelectorValidityError",
   status |-> GenericResponseStatus.ERROR, selector |-> selector]

\* errors raised by the platform and by the external libraries
TypeError == [class |-> "TypeError"]
TimeoutError == [class |-> "TimeoutError"]
OtherError == [class |-> "Error"]

(***************************************************************************)
(* Addresses: new URL(req.url) and the values derived from it              *)
(***************************************************************************)
UrlPage == "https://example.test/page"
UrlPageQuery == "https://example.test/page?q=1"
UrlOtherHost == "https://other.test/page"
UrlRelative == "example.test/page"

Urls == {UrlPage, UrlPageQuery, UrlOtherHost, UrlRelative}

\* new URL(s) throws a TypeError unless s is an absolute URL
UrlParses(s) == s \in {UrlPage, UrlPageQuery, UrlOtherHost}

UrlHostname(s) ==
  CASE s = UrlPage -> "example.test"
    [] s = UrlPageQuery -> "example.test"
    [] s = UrlOtherHost -> "other.test"

UrlPathname(s) ==
  CASE s = UrlPage -> "/page"
    [] s = UrlPageQuery -> "/page"
    [] s = UrlOtherHost -> "/page"

\* _url.toString().substring(_url.toString().lastIndexOf('/') + 1)
UrlBaseName(s) ==
  CASE s = UrlPage -> "page"
    [] s = UrlPageQuery -> "page?q=1"
    [] s = UrlOtherHost -> "page"

ScreenshotPath(s) == "./" \o UrlHostname(s) \o "-" \o UrlBaseName(s) \o ".png"

\* createHash('sha256').update(pathname).digest('hex')
Sha256Hex(s) == "sha256:" \o s

\* a key computed from the whole address instead of its path
CacheKeyOfWholeAddress(s) == <<UrlHostname(s), Sha256Hex(s)>>

\* lines 146 and 150-153: the namespace and the key of the entry of an address
CacheKey(s) == <<UrlHostname(s), Sha256Hex(UrlPathname(s))>>

CacheKeys == {CacheKey(s) : s \in {u \in Urls : UrlParses(u)}}
FilePaths == {ScreenshotPath(s) : s \in {u \in Urls : UrlParses(u)}}

\* markup the remote site may serve
Markups == {"<html>v1</html>", "<html>v2</html>"}
NoEntry == "<no entry>"
NoFile == "<no file>"
NoPage == "<no page>"

\* bytes written by one request's screenshot, and their base64 encoding
Png(r) == IF r = 1 THEN "png-1" ELSE "png-2"
Base64(bytes) == "base64(" \o bytes \o ")"
DataUri(b64) == <<"data:image/gif;base64,", b64>>

(***************************************************************************)
(* State                                                                   *)
(***************************************************************************)
VARIABLES
  pc,      \* pc[r]: the await at which getContent of request r is suspended
  req,     \* req[r]: the caller's request object (mutated in place)
  result,  \* result[r]: the promise returned by getContent
  local,   \* local[r]: the local variables of getContent / loadPage
  cpc,     \* cpc[r][i]: position of the i-th clickBefore callback
  cache,   \* the FileSystemCache: <<namespace, key>> -> markup
  files,   \* the working directory: path -> bytes
  obs,     \* obs[r]: what request r has done to the outside world so far
  selectorConfig,  \* the SelectorConfig component of the frontend
  cssSelector,     \* the CSSSelector component of the frontend
  debounced,       \* the timers and messages of validateCssSelector
  scrapingConfigurator  \* the ScrapingConfigurator component

\* the variables of the scraping engine and those of the frontend
engine == <<pc, req, result, local, cpc, cache, files, obs>>
frontend == <<selectorConfig, cssSelector, debounced, scrapingConfigurator>>
vars == <<pc, req, result, local, cpc, cache, files, obs,
          selectorConfig, cssSelector, debounced, scrapingConfigurator>>

Pending == [state |-> "pending"]
Fulfilled(v) == [state |-> "fulfilled", value |-> v]
Rejected(v) == [state |-> "rejected", value |-> v]

NoLocals ==
  [page |-> NoPage, cachedHtml |-> Undef, clickErr |-> UNDEFINED,
   content |-> Undef, imageAsBase64 |-> "", error |-> UNDEFINED]

\* obs[r] records, for the call in flight on slot r: which operation was
\* called and with which argument (call, given); the external operations it
\* has started (checker, launched, cacheRead, navigated, injected, clicked,
\* textRead, shot) or completed (cacheWritten, wrote); how the checker ended
\* for the primary selector (primary); the stages it has completed
\* (validated, acquired); whether a callback of clickBefore has started
\* (clickStarted) or failed (clickFailed), and why the last one failed
\* (lastFailure), whether the checker threw for one of them (clickThrew);
\* whether the last deletion of the existing screenshot file failed
\* (unlinkFailed); how many callbacks of clickBefore have failed (failures)
\* and whether the click of one of them timed out (clickTimedOut), and the
\* position in clickBefore of the one that failed last (lastFailed); how many
\* browser instances it has launched that are still open (browsers)
NoObs ==
  [call |-> "none", given |-> UNDEFINED,
   checker |-> FALSE, launched |-> FALSE, cacheRead |-> FALSE,
   cacheWritten |-> FALSE, navigated |-> FALSE, injected |-> FALSE,
   clicked |-> FALSE, textRead |-> FALSE, shot |-> FALSE, wrote |-> FALSE,
   primary |-> "none", validated |-> FALSE, acquired |-> FALSE,
   clickStarted |-> FALSE, clickFailed |-> FALSE, lastFailure |-> "none",
   clickThrew |-> FALSE, unlinkFailed |-> FALSE,
   failures |-> 0, clickTimedOut |-> FALSE, lastFailed |-> 0,
   browsers |-> 0]

\* a component that has not been rendered yet
NotMounted == [mounted |-> FALSE]

\* time is counted in ticks of 500 ms; the wait of the debounce is 1000 ms
TickMs == 500
Wait == 1000 \div TickMs

\* bound on the calls of validateCssSelector in a burst
MaxCalls == 3

\* no debounced function has been created: no timer is pending and no
\* message is on its way to the backend (waiting); sinceLast is the time
\* elapsed since the last call of validateCssSelector, burst counts the
\* calls that followed one another by less than the wait and the messages
\* emitted for them, isValid is the last answer handed to a callback
NoTimers ==
  [timers |-> <<>>, waiting |-> 0, sinceLast |-> Wait,
   burst |-> [calls |-> 0, emitted |-> 0], isValid |-> Undef]

Init ==
  /\ pc = [r \in Reqs |-> "idle"]
  /\ req = [r \in Reqs |-> UNDEFINED]
  /\ result = [r \in Reqs |-> Pending]
  /\ local = [r \in Reqs |-> NoLocals]
  /\ cpc = [r \in Reqs |-> <<>>]
  /\ cache = [k \in CacheKeys |-> NoEntry]
  /\ files = [p \in FilePaths |-> NoFile]
  /\ obs = [r \in Reqs |-> NoObs]
  /\ selectorConfig = NotMounted
  /\ cssSelector = NotMounted
  /\ debounced = NoTimers
  /\ scrapingConfigurator = NotMounted

(***************************************************************************)
(* validateSelector (also the first half of clickElement and getContent)   *)
(***************************************************************************)
\* a validator without the language check of line 33
LanguageSupportedAny(selector) == TRUE

\* line 33: the language is css or unset
LanguageSupported(selector) ==
  selector.language = "css" \/ selector.language = Undef

\* a validator that reports every rule as valid
CheckedStatusAlwaysValid(selector) == SelectorStatus.VALID

\* a validator that only sets the status of a selector that has none yet
CheckedStatusSticky(selector) ==
  IF selector.status # Undef
    THEN selector.status
    ELSE IF CheckerAccepts(RuleText(selector.path))
      THEN SelectorStatus.VALID
      ELSE SelectorStatus.INVALID

\* lines 48-53: the status written into the selector after a clean check
CheckedStatus(selector) ==
  IF CheckerAccepts(RuleText(selector.path))
    THEN SelectorStatus.VALID
    ELSE SelectorStatus.INVALID

\* lines 49-54: the selector object after validateText returned
Validated(selector) == [selector EXCEPT !.status = CheckedStatus(selector)]

\* outcomes of an awaited external operation
CheckerOutcomes == {"ok", "throw"}
IoOutcomes == {"ok", "error"}
BrowserOutcomes == {"ok", "timeout", "error"}

\* the error object an awaited browser operation throws
Thrown(outcome) == IF outcome = "timeout" THEN TimeoutError ELSE OtherError

(***************************************************************************)
(* getContent: the catch block, lines 277-308                              *)
(***************************************************************************)
\* line 280: playwright.errors && error instanceof playwright.errors.TimeoutError
IsTimeoutError(error) == error.class = "TimeoutError"

\* line 300: error instanceof ScrapingError
IsScrapingError(error) == error.class = "ScrapingError"

\* lines 299-306: what getContent rejects with after the cleanup
Rethrown(error, selector) ==
  IF IsScrapingError(error)
    THEN error
    ELSE ScrapingError(ScrapingStatus.ERROR, selector)

\* the catch block without the cleanup of lines 289-297
CatchBlockNoCleanup(r, rq, error, loc) ==
  /\ pc' = [pc EXCEPT ![r] = "done"]
  /\ result' = [result EXCEPT ![r] =
       IF IsTimeoutError(error)
         THEN Rejected(ScrapingError(ScrapingStatus.NO_CONTENT, rq.selector))
         ELSE Rejected(Rethrown(error, rq.selector))]
  /\ local' = [local EXCEPT ![r] = [loc EXCEPT !.error = error]]

\* a catch block that returns nothing when the error is a timeout
CatchBlockPendingOnTimeout(r, rq, error, loc) ==
  IF IsTimeoutError(error)
    THEN /\ pc' = [pc EXCEPT ![r] = "catch:timeout"]
         /\ result' = result
         /\ local' = [local EXCEPT ![r] = [loc EXCEPT !.error = error]]
    ELSE /\ pc' = [pc EXCEPT ![r] = "catch:unlink"]
         /\ result' = result
         /\ local' = [local EXCEPT ![r] = [loc EXCEPT !.error = error]]

\* lines 277-293: entered with the thrown error; rq is the request object
CatchBlock(r, rq, error, loc) ==
  IF IsTimeoutError(error)
    THEN /\ pc' = [pc EXCEPT ![r] = "done"]
         /\ result' = [result EXCEPT ![r] =
              Rejected(ScrapingError(ScrapingStatus.NO_CONTENT, rq.selector))]
         /\ local' = [local EXCEPT ![r] = [loc EXCEPT !.error = error]]
    ELSE /\ pc' = [pc EXCEPT ![r] = "catch:unlink"]
         /\ result' = result
         /\ local' = [local EXCEPT ![r] = [loc EXCEPT !.error = error]]

\* fs unlink: removes an existing file, or fails and leaves the directory as is
UnlinkOutcomes(path) ==
  IF files[path] = NoFile THEN {"error"} ELSE {"ok", "error"}

Unlinked(path, outcome) ==
  IF outcome = "ok" THEN [files EXCEPT ![path] = NoFile] ELSE files

\* obs[r] after an unlink: whether the deletion of an existing file failed
UnlinkObserved(r, path, outcome) ==
  [obs EXCEPT ![r].unlinkFailed = (outcome = "error" /\ files[path] # NoFile)]

\* lines 291-306
CatchUnlinkReturns(r) ==
  /\ pc[r] = "catch:unlink"
  /\ UNCHANGED frontend
  /\ \E outcome \in UnlinkOutcomes(ScreenshotPath(req[r].url)) :
       /\ files' = Unlinked(ScreenshotPath(req[r].url), outcome)
       /\ obs' = UnlinkObserved(r, ScreenshotPath(req[r].url), outcome)
  /\ pc' = [pc EXCEPT ![r] = "done"]
  /\ result' = [result EXCEPT ![r] =
       Rejected(Rethrown(local[r].error, req[r].selector))]
  /\ UNCHANGED <<req, local, cpc, cache>>

(***************************************************************************)
(* getContent: entry and validation of the primary selector, lines 183-214 *)
(***************************************************************************)
Settle(r, outcome) ==
  /\ pc' = [pc EXCEPT ![r] = "done"]
  /\ result' = [result EXCEPT ![r] = outcome]

\* lines 212-214: the error getContent rejects with when validateSelector
\* rejected
PrimaryValidationError(selector) ==
  ScrapingError(ScrapingStatus.ERROR, selector)

\* line 186
InvalidCall(request) ==
  \/ request = UNDEFINED
  \/ request.selector = UNDEFINED
  \/ request.selector.path = Undef

\* lines 183-191 and 33-48: getContent(request) is called on slot r and runs
\* up to its first await
GetContent(r, request) ==
  /\ pc[r] = "idle"
  /\ UNCHANGED frontend
  /\ req' = [req EXCEPT ![r] = request]
  /\ local' = [local EXCEPT ![r] = NoLocals]
  /\ cpc' = [cpc EXCEPT ![r] = <<>>]
  /\ UNCHANGED <<cache, files>>
  /\ LET called == [NoObs EXCEPT !.call = "getContent", !.given = request]
     IN  IF InvalidCall(request)
           THEN /\ Settle(r, Rejected(ScrapingError(ScrapingStatus.ERROR,
                                                    UNDEFINED)))
                /\ obs' = [obs EXCEPT ![r] = called]
           ELSE IF ~LanguageSupported(request.selector)
             \* validateSelector rejects (line 34), caught at line 212
             THEN /\ Settle(r, Rejected(PrimaryValidationError(
                                          request.selector)))
                  /\ obs' = [obs EXCEPT ![r] = called]
             ELSE /\ pc' = [pc EXCEPT ![r] = "validateText"]
                  /\ result' = [result EXCEPT ![r] = Pending]
                  /\ obs' = [obs EXCEPT ![r] =
                               [called EXCEPT !.checker = TRUE]]

\* getContent going on whatever the status of the selector
PrimaryVerdictLenient(response) ==
  IF response.status = GenericResponseStatus.ERROR
    THEN Rejected(ScrapingError(ScrapingStatus.ERROR, response.selector))
    ELSE Pending

\* lines 192-208: what getContent does with the validity response; "go on"
\* when the selector is valid
PrimaryVerdict(response) ==
  IF response.status = GenericResponseStatus.ERROR
    THEN Rejected(ScrapingError(ScrapingStatus.ERROR, response.selector))
    ELSE IF response.selector.status = SelectorStatus.INVALID
      THEN Rejected(ScrapingError(ScrapingStatus.INVALID_SELECTOR,
                                  response.selector))
      ELSE Pending

\* lines 48-57, 192-222 and 134-135: the checker returns for the primary
\* selector; on a valid selector the address is parsed and the browser launch
\* is awaited
ValidateTextReturns(r) ==
  /\ pc[r] = "validateText"
  /\ UNCHANGED frontend
  /\ UNCHANGED <<local, cpc, cache, files>>
  /\ \E outcome \in CheckerOutcomes :
       IF outcome = "throw"
         \* line 56 rejects, caught at line 212
         THEN /\ Settle(r, Rejected(PrimaryValidationError(req[r].selector)))
              /\ req' = req
              /\ obs' = [obs EXCEPT ![r].primary = "throw"]
         ELSE LET selector == Validated(req[r].selector)
                  verdict ==
                    PrimaryVerdict(DataSelectorValidityResponse(selector))
                  checked == [obs[r] EXCEPT !.primary = "ok"]
                  valid == [checked EXCEPT !.validated = TRUE]
              IN  /\ req' = [req EXCEPT ![r].selector = selector]
                  /\ IF verdict # Pending
                       THEN /\ Settle(r, verdict)
                            /\ obs' = [obs EXCEPT ![r] = checked]
                       ELSE IF ~UrlParses(req[r].url)
                         \* line 218 throws outside of any try block
                         THEN /\ Settle(r, Rejected(TypeError))
                              /\ obs' = [obs EXCEPT ![r] = valid]
                         ELSE /\ pc' = [pc EXCEPT ![r] = "launch"]
                              /\ result' = result
                              /\ obs' = [obs EXCEPT ![r] =
                                           [valid EXCEPT !.launched = TRUE]]

(***************************************************************************)
(* loadPage, lines 134-174                                                 *)
(***************************************************************************)
\* a cache that never finds an entry
CacheGetAlwaysMiss(key) == Undef

\* line 156: what cache.get resolves with
CacheGet(key) == IF cache[key] = NoEntry THEN Undef ELSE cache[key]

\* a loadPage that takes the page from a browser launched beforehand and
\* launches none itself
LaunchReturnsPooled(r) ==
  /\ pc[r] = "launch"
  /\ UNCHANGED frontend
  /\ UNCHANGED <<req, cpc, cache, files>>
  /\ \E outcome \in BrowserOutcomes :
       IF outcome = "ok"
         THEN /\ pc' = [pc EXCEPT ![r] = "cache.get"]
              /\ obs' = [obs EXCEPT ![r].cacheRead = TRUE]
              /\ UNCHANGED <<result, local>>
         ELSE /\ CatchBlock(r, req[r], Thrown(outcome), local[r])
              /\ obs' = obs

\* lines 135-156: the browser, context and page are created.  The three
\* awaits of lines 135-137 are one step: when it fails, the failure is the
\* one of chromium.launch (no browser) or the one of newContext or newPage
\* (the browser is launched and stays open)
LaunchReturns(r) ==
  /\ pc[r] = "launch"
  /\ UNCHANGED frontend
  /\ UNCHANGED <<req, cpc, cache, files>>
  /\ \E outcome \in BrowserOutcomes :
       IF outcome = "ok"
         THEN /\ pc' = [pc EXCEPT ![r] = "cache.get"]
              /\ obs' = [obs EXCEPT ![r].cacheRead = TRUE,
                                    ![r].browsers = @ + 1]
              /\ UNCHANGED <<result, local>>
         ELSE /\ CatchBlock(r, req[r], Thrown(outcome), local[r])
              /\ \E launched \in {0, 1} :
                   obs' = [obs EXCEPT ![r].browsers = @ + launched]

\* lines 156-163
CacheGetReturns(r) ==
  /\ pc[r] = "cache.get"
  /\ UNCHANGED frontend
  /\ UNCHANGED <<req, cpc, cache, files>>
  /\ \E outcome \in IoOutcomes :
       IF outcome = "ok"
         THEN LET cachedHtml == CacheGet(CacheKey(req[r].url))
              IN  /\ local' = [local EXCEPT ![r].cachedHtml = cachedHtml]
                  /\ result' = result
                  /\ IF cachedHtml # Undef
                       THEN /\ pc' = [pc EXCEPT ![r] = "setContent"]
                            /\ obs' = [obs EXCEPT ![r].injected = TRUE]
                       ELSE /\ pc' = [pc EXCEPT ![r] = "goto"]
                            /\ obs' = [obs EXCEPT ![r].navigated = TRUE]
         ELSE /\ CatchBlock(r, req[r], OtherError, local[r])
              /\ obs' = obs

\* lines 160, 170 and 225-226
SetContentReturns(r) ==
  /\ pc[r] = "setContent"
  /\ UNCHANGED frontend
  /\ UNCHANGED <<req, cpc, cache, files>>
  /\ \E outcome \in BrowserOutcomes :
       IF outcome = "ok"
         THEN /\ pc' = [pc EXCEPT ![r] = "waitForTimeout"]
              /\ local' = [local EXCEPT ![r].page = local[r].cachedHtml]
              /\ result' = result
              /\ obs' = [obs EXCEPT ![r].acquired = TRUE]
         ELSE /\ CatchBlock(r, req[r], Thrown(outcome), local[r])
              /\ obs' = obs

\* lines 163-164: the navigation ends; the site served some markup
GotoReturns(r) ==
  /\ pc[r] = "goto"
  /\ UNCHANGED frontend
  /\ UNCHANGED <<req, cpc, cache, files, obs>>
  /\ \E outcome \in BrowserOutcomes :
       IF outcome = "ok"
         THEN \E markup \in Markups :
                /\ pc' = [pc EXCEPT ![r] = "content"]
                /\ local' = [local EXCEPT ![r].page = markup]
                /\ result' = result
         ELSE CatchBlock(r, req[r], Thrown(outcome), local[r])

\* lines 164-167
\* a read-back whose failure does not keep the acquirer from storing
ContentReturnsStoringAnyway(r) ==
  /\ pc[r] = "content"
  /\ UNCHANGED frontend
  /\ UNCHANGED <<req, cpc, cache, files, obs>>
  /\ \E outcome \in BrowserOutcomes :
       /\ pc' = [pc EXCEPT ![r] = "cache.set"]
       /\ local' = [local EXCEPT ![r].cachedHtml =
                      IF outcome = "ok" THEN local[r].page ELSE Undef]
       /\ result' = result

ContentReturns(r) ==
  /\ pc[r] = "content"
  /\ UNCHANGED frontend
  /\ UNCHANGED <<req, cpc, cache, files, obs>>
  /\ \E outcome \in BrowserOutcomes :
       IF outcome = "ok"
         THEN /\ pc' = [pc EXCEPT ![r] = "cache.set"]
              /\ local' = [local EXCEPT ![r].cachedHtml = local[r].page]
              /\ result' = result
         ELSE CatchBlock(r, req[r], Thrown(outcome), local[r])

\* lines 167-170 and 225-226
\* a store that keeps the entry another request has written already
CacheSetReturnsKeepingFirst(r) ==
  /\ pc[r] = "cache.set"
  /\ UNCHANGED frontend
  /\ UNCHANGED <<req, cpc, files>>
  /\ \E outcome \in IoOutcomes :
       IF outcome = "ok"
         THEN /\ cache' = IF cache[CacheKey(req[r].url)] = NoEntry
                            THEN [cache EXCEPT ![CacheKey(req[r].url)] =
                                    local[r].cachedHtml]
                            ELSE cache
              /\ pc' = [pc EXCEPT ![r] = "waitForTimeout"]
              /\ obs' = [obs EXCEPT ![r].cacheWritten = TRUE,
                                     ![r].acquired = TRUE]
              /\ UNCHANGED <<result, local>>
         ELSE /\ CatchBlock(r, req[r], OtherError, local[r])
              /\ UNCHANGED <<cache, obs>>

CacheSetReturns(r) ==
  /\ pc[r] = "cache.set"
  /\ UNCHANGED frontend
  /\ UNCHANGED <<req, cpc, files>>
  /\ \E outcome \in IoOutcomes :
       IF outcome = "ok"
         THEN /\ cache' = [cache EXCEPT ![CacheKey(req[r].url)] =
                             local[r].cachedHtml]
              /\ pc' = [pc EXCEPT ![r] = "waitForTimeout"]
              /\ obs' = [obs EXCEPT ![r].cacheWritten = TRUE,
                                     ![r].acquired = TRUE]
              /\ UNCHANGED <<result, local>>
         ELSE /\ CatchBlock(r, req[r], OtherError, local[r])
              /\ UNCHANGED <<cache, obs>>

(***************************************************************************)
(* getContent: the pre-clicks, lines 230-255, and clickElement, 67-123     *)
(***************************************************************************)
\* line 230: the entries mapped by req.clickBefore.map
ClickList(rq) ==
  IF rq.clickBefore.present THEN rq.clickBefore.list ELSE <<>>

\* clickElement called for every entry, the undefined ones included: the
\* guard of line 237 is left out, an undefined entry is rejected at line 122
ClickElementStartUnguarded(element) ==
  IF element = UNDEFINED
    THEN [at |-> "done",
          err |-> ScrapingError(ScrapingStatus.ERROR, UNDEFINED)]
    ELSE IF element.path = Undef
      THEN [at |-> "done",
            err |-> ScrapingError(ScrapingStatus.ERROR, element)]
      ELSE IF ~LanguageSupported(element)
        THEN [at |-> "done",
              err |-> ScrapingError(ScrapingStatus.ERROR, element)]
        ELSE [at |-> "validateText", err |-> UNDEFINED]

\* lines 237-239, 71-83: the synchronous start of the callback of one entry:
\* where it suspends and the error it has caught, if any
ClickElementStart(element) ==
  IF element = UNDEFINED
    THEN [at |-> "done", err |-> UNDEFINED]
    ELSE IF element.path = Undef
      \* line 122
      THEN [at |-> "done",
            err |-> ScrapingError(ScrapingStatus.ERROR, element)]
      ELSE IF ~LanguageSupported(element)
        \* line 73
        THEN [at |-> "done",
              err |-> ScrapingError(ScrapingStatus.ERROR, element)]
        ELSE [at |-> "validateText", err |-> UNDEFINED]

\* a validator crash reported as an invalid selector
ClickValidationErrorAsInvalid(selector) ==
  ScrapingError(ScrapingStatus.INVALID_SELECTOR, selector)

\* lines 98-101: the error clickElement rejects with when validateSelector
\* rejected
ClickValidationError(selector) ==
  ScrapingError(ScrapingStatus.ERROR, selector)

\* lines 85-97: what clickElement does with the validity response
ClickVerdict(response) ==
  IF response.status = GenericResponseStatus.ERROR
    THEN ScrapingError(ScrapingStatus.ERROR, response.selector)
    ELSE IF response.selector.status = SelectorStatus.INVALID
      THEN ScrapingError(ScrapingStatus.INVALID_SELECTOR, response.selector)
      ELSE UNDEFINED

\* a click failure reported without looking at its cause
ClickFailureUnclassified(error, selector) ==
  ScrapingError(ScrapingStatus.ERROR, selector)

\* lines 107-119: the error clickElement rejects with when page.click throws
ClickFailure(error, selector) ==
  IF IsTimeoutError(error)
    THEN ScrapingError(ScrapingStatus.ELEMENT_NOT_FOUND, selector)
    ELSE ScrapingError(ScrapingStatus.ERROR, selector)

Max(S) == CHOOSE x \in S : \A y \in S : y <= x

\* getContent going on to the extraction whatever clickErr holds
AfterClicksIgnoringClickErr(r, rq, loc, ob) ==
  /\ pc' = [pc EXCEPT ![r] = "textContent"]
  /\ result' = result
  /\ local' = [local EXCEPT ![r] = loc]
  /\ obs' = [obs EXCEPT ![r] = [ob EXCEPT !.textRead = TRUE]]

\* lines 252-259: after Promise.all resolved (or without clickBefore)
AfterClicks(r, rq, loc, ob) ==
  IF loc.clickErr # UNDEFINED
    THEN /\ CatchBlock(r, rq, loc.clickErr, loc)
         /\ obs' = [obs EXCEPT ![r] = ob]
    ELSE /\ pc' = [pc EXCEPT ![r] = "textContent"]
         /\ result' = result
         /\ local' = [local EXCEPT ![r] = loc]
         /\ obs' = [obs EXCEPT ![r] = [ob EXCEPT !.textRead = TRUE]]

\* a join that gives up as soon as one callback has failed
JoinClicksFailFast(r, rq, positions, loc, ob) ==
  /\ req' = [req EXCEPT ![r] = rq]
  /\ cpc' = [cpc EXCEPT ![r] = positions]
  /\ UNCHANGED <<cache, files>>
  /\ IF \/ \A i \in DOMAIN positions : positions[i] = "done"
        \/ loc.clickErr # UNDEFINED
       THEN AfterClicks(r, rq, loc, ob)
       ELSE /\ pc' = [pc EXCEPT ![r] = "clickBefore"]
            /\ result' = result
            /\ local' = [local EXCEPT ![r] = loc]
            /\ obs' = [obs EXCEPT ![r] = ob]

\* lines 235-248: Promise.all joins the callbacks: getContent goes on only
\* when every callback has finished
JoinClicks(r, rq, positions, loc, ob) ==
  /\ req' = [req EXCEPT ![r] = rq]
  /\ cpc' = [cpc EXCEPT ![r] = positions]
  /\ UNCHANGED <<cache, files>>
  /\ IF \A i \in DOMAIN positions : positions[i] = "done"
       THEN AfterClicks(r, rq, loc, ob)
       ELSE /\ pc' = [pc EXCEPT ![r] = "clickBefore"]
            /\ result' = result
            /\ local' = [local EXCEPT ![r] = loc]
            /\ obs' = [obs EXCEPT ![r] = ob]

\* lines 226-248: the first pause is over; every callback of clickBefore runs
\* up to its first await, the failures caught at once are assigned to
\* clickErr in list order
WaitForTimeoutReturns(r) ==
  /\ pc[r] = "waitForTimeout"
  /\ UNCHANGED frontend
  /\ LET list == ClickList(req[r])
         start == [i \in DOMAIN list |-> ClickElementStart(list[i])]
         failed == {i \in DOMAIN list : start[i].err # UNDEFINED}
         clickErr == IF failed = {} THEN UNDEFINED ELSE start[Max(failed)].err
         positions == [i \in DOMAIN list |-> start[i].at]
         checking == \E i \in DOMAIN list : start[i].at = "validateText"
     IN  JoinClicks(r, req[r], positions,
                    [local[r] EXCEPT !.clickErr = clickErr],
                    [obs[r] EXCEPT
                       !.checker = @ \/ checking,
                       !.clickStarted = \E i \in DOMAIN list :
                                           list[i] # UNDEFINED,
                       !.clickFailed = failed # {},
                       !.lastFailure = IF failed = {} THEN "none"
                                                      ELSE "rejected",
                       !.failures = Cardinality(failed),
                       !.lastFailed = IF failed = {} THEN 0
                                                     ELSE Max(failed)])

\* the request object with the i-th clickBefore entry replaced
WithClick(rq, i, selector) ==
  [rq EXCEPT !.clickBefore.list[i] = selector]

\* a callback ends: with err caught at line 244 (for the given cause), or
\* without (err = UNDEFINED)
\* the first failure is kept instead of the last one
ClickEndsKeepingFirstFailure(r, i, rq, err, cause) ==
  JoinClicks(r, rq, [cpc[r] EXCEPT ![i] = "done"],
             IF err = UNDEFINED \/ local[r].clickErr # UNDEFINED
               THEN local[r]
               ELSE [local[r] EXCEPT !.clickErr = err],
             IF cause = "none"
               THEN obs[r]
               ELSE [obs[r] EXCEPT !.clickFailed = TRUE,
                                   !.lastFailure = cause,
                                   !.clickThrew = @ \/ cause = "throw",
                                   !.failures = @ + 1,
                                   !.clickTimedOut = @ \/ cause = "timeout",
                                   !.lastFailed = i])

ClickEnds(r, i, rq, err, cause) ==
  JoinClicks(r, rq, [cpc[r] EXCEPT ![i] = "done"],
             IF err = UNDEFINED
               THEN local[r]
               ELSE [local[r] EXCEPT !.clickErr = err],
             IF cause = "none"
               THEN obs[r]
               ELSE [obs[r] EXCEPT !.clickFailed = TRUE,
                                   !.lastFailure = cause,
                                   !.clickThrew = @ \/ cause = "throw",
                                   !.failures = @ + 1,
                                   !.clickTimedOut = @ \/ cause = "timeout",
                                   !.lastFailed = i])

\* lines 83-105: the checker returns for the i-th clickBefore entry
ClickValidateTextReturns(r, i) ==
  /\ pc[r] = "clickBefore"
  /\ UNCHANGED frontend
  /\ i \in DOMAIN cpc[r]
  /\ cpc[r][i] = "validateText"
  /\ \E outcome \in CheckerOutcomes :
       LET element == req[r].clickBefore.list[i]
           selector == Validated(element)
           err == ClickVerdict(DataSelectorValidityResponse(selector))
       IN  IF outcome = "throw"
             \* line 56 rejects, caught at line 98
             THEN ClickEnds(r, i, req[r], ClickValidationError(element),
                            "throw")
             ELSE IF err # UNDEFINED
               THEN ClickEnds(r, i, WithClick(req[r], i, selector), err,
                              "verdict")
               ELSE JoinClicks(r, WithClick(req[r], i, selector),
                               [cpc[r] EXCEPT ![i] = "click"], local[r],
                               [obs[r] EXCEPT !.clicked = TRUE])

\* lines 105-119 and 240: page.click returns for the i-th entry
PageClickReturns(r, i) ==
  /\ pc[r] = "clickBefore"
  /\ UNCHANGED frontend
  /\ i \in DOMAIN cpc[r]
  /\ cpc[r][i] = "click"
  /\ \E outcome \in BrowserOutcomes :
       IF outcome = "ok"
         THEN JoinClicks(r, req[r], [cpc[r] EXCEPT ![i] = "pause"], local[r],
                         obs[r])
         ELSE ClickEnds(r, i, req[r],
                        ClickFailure(Thrown(outcome),
                                     req[r].clickBefore.list[i]),
                        outcome)

\* line 240: the pause after the click of the i-th entry is over
ClickPauseReturns(r, i) ==
  /\ pc[r] = "clickBefore"
  /\ UNCHANGED frontend
  /\ i \in DOMAIN cpc[r]
  /\ cpc[r][i] = "pause"
  /\ ClickEnds(r, i, req[r], UNDEFINED, "none")

(***************************************************************************)
(* getContent: the extraction, lines 257-276                               *)
(***************************************************************************)
\* what page.locator(path).textContent() may resolve with
TextContents == {"yeah baby", "", Null}

\* a test that takes the empty string for a content
TruthyUnlessNull(content) == content # Null /\ content # Undef

\* line 270: if (content)
Truthy(content) == content # "" /\ content # Null /\ content # Undef

\* a read of the text whose timeout is swallowed
TextContentReturnsDespiteTimeout(r) ==
  /\ pc[r] = "textContent"
  /\ UNCHANGED frontend
  /\ UNCHANGED <<req, cpc, cache, files>>
  /\ \E outcome \in BrowserOutcomes :
       IF outcome = "ok"
         THEN \E content \in TextContents :
                /\ pc' = [pc EXCEPT ![r] = "screenshot"]
                /\ local' = [local EXCEPT ![r].content = content]
                /\ result' = result
                /\ obs' = [obs EXCEPT ![r].shot = TRUE]
         ELSE IF outcome = "timeout"
           THEN /\ pc' = [pc EXCEPT ![r] = "screenshot"]
                /\ local' = [local EXCEPT ![r].error = TimeoutError]
                /\ result' = result
                /\ obs' = [obs EXCEPT ![r].shot = TRUE]
           ELSE /\ CatchBlock(r, req[r], Thrown(outcome), local[r])
                /\ obs' = obs

\* lines 259-265
TextContentReturns(r) ==
  /\ pc[r] = "textContent"
  /\ UNCHANGED frontend
  /\ UNCHANGED <<req, cpc, cache, files>>
  /\ \E outcome \in BrowserOutcomes :
       IF outcome = "ok"
         THEN \E content \in TextContents :
                /\ pc' = [pc EXCEPT ![r] = "screenshot"]
                /\ local' = [local EXCEPT ![r].content = content]
                /\ result' = result
                /\ obs' = [obs EXCEPT ![r].shot = TRUE]
         ELSE /\ CatchBlock(r, req[r], Thrown(outcome), local[r])
              /\ obs' = obs

\* lines 265-266: the screenshot is taken and written to screenshotPath
ScreenshotReturns(r) ==
  /\ pc[r] = "screenshot"
  /\ UNCHANGED frontend
  /\ UNCHANGED <<req, cpc, cache>>
  /\ \E outcome \in BrowserOutcomes :
       IF outcome = "ok"
         THEN /\ files' = [files EXCEPT ![ScreenshotPath(req[r].url)] = Png(r)]
              /\ pc' = [pc EXCEPT ![r] = "readFile"]
              /\ obs' = [obs EXCEPT ![r].wrote = TRUE]
              /\ UNCHANGED <<result, local>>
         ELSE /\ CatchBlock(r, req[r], Thrown(outcome), local[r])
              /\ UNCHANGED <<files, obs>>

\* fs readFile: fails when the file is missing, and may fail otherwise
ReadFileOutcomes(path) ==
  IF files[path] = NoFile THEN {"error"} ELSE {"ok", "error"}

\* lines 266-268
ReadFileReturns(r) ==
  /\ pc[r] = "readFile"
  /\ UNCHANGED frontend
  /\ UNCHANGED <<req, cpc, cache, files, obs>>
  /\ \E outcome \in ReadFileOutcomes(ScreenshotPath(req[r].url)) :
       IF outcome = "ok"
         THEN /\ pc' = [pc EXCEPT ![r] = "unlink"]
              /\ local' = [local EXCEPT ![r].imageAsBase64 =
                             Base64(files[ScreenshotPath(req[r].url)])]
              /\ result' = result
         ELSE CatchBlock(r, req[r], OtherError, local[r])

\* an extraction that returns whatever text it has read
ExtractedUntested(content, selector, imageAsBase64) ==
  Fulfilled(ScrapedContent(content, selector, DataUri(imageAsBase64)))

\* lines 270-276: the value getContent returns after the extraction
Extracted(content, selector, imageAsBase64) ==
  IF Truthy(content)
    THEN Fulfilled(ScrapedContent(content, selector, DataUri(imageAsBase64)))
    ELSE Rejected(ScrapingError(ScrapingStatus.NO_CONTENT, selector))

\* lines 268-276
UnlinkReturns(r) ==
  /\ pc[r] = "unlink"
  /\ UNCHANGED frontend
  /\ UNCHANGED <<req, cpc, cache>>
  /\ \E outcome \in UnlinkOutcomes(ScreenshotPath(req[r].url)) :
       /\ files' = Unlinked(ScreenshotPath(req[r].url), outcome)
       /\ obs' = UnlinkObserved(r, ScreenshotPath(req[r].url), outcome)
       /\ IF outcome = "ok"
            THEN /\ Settle(r, Extracted(local[r].content, req[r].selector,
                                        local[r].imageAsBase64))
                 /\ local' = local
            ELSE CatchBlock(r, req[r], OtherError, local[r])

(***************************************************************************)
(* validateSelector called on its own, lines 30-58                         *)
(***************************************************************************)
\* lines 30-48: validateSelector(selector) is called on slot r
ValidateSelector(r, selector) ==
  /\ pc[r] = "idle"
  /\ UNCHANGED frontend
  /\ req' = [req EXCEPT ![r] = [selector |-> selector]]
  /\ local' = [local EXCEPT ![r] = NoLocals]
  /\ cpc' = [cpc EXCEPT ![r] = <<>>]
  /\ UNCHANGED <<cache, files>>
  /\ LET called == [NoObs EXCEPT !.call = "validateSelector",
                                  !.given = [selector |-> selector]]
     IN  IF ~LanguageSupported(selector)
           THEN /\ Settle(r, Rejected(DataSelectorValidityError(selector)))
                /\ obs' = [obs EXCEPT ![r] = called]
           ELSE /\ pc' = [pc EXCEPT ![r] = "validateSelector"]
                /\ result' = [result EXCEPT ![r] = Pending]
                /\ obs' = [obs EXCEPT ![r] =
                             [called EXCEPT !.checker = TRUE]]

\* lines 48-57
ValidateSelectorReturns(r) ==
  /\ pc[r] = "validateSelector"
  /\ UNCHANGED frontend
  /\ UNCHANGED <<local, cpc, cache, files>>
  /\ \E outcome \in CheckerOutcomes :
       /\ obs' = [obs EXCEPT ![r].primary = outcome]
       /\ IF outcome = "throw"
            THEN /\ Settle(r, Rejected(DataSelectorValidityError(
                                         req[r].selector)))
                 /\ req' = req
            ELSE LET selector == Validated(req[r].selector)
                 IN  /\ req' = [req EXCEPT ![r].selector = selector]
                     /\ Settle(r, Fulfilled(DataSelectorValidityResponse(
                                              selector)))

(***************************************************************************)
(* The calls made by the transport layer                                   *)
(***************************************************************************)
Languages == {"css", Undef, "xpath"}
Statuses == {Undef, SelectorStatus.VALID, SelectorStatus.INVALID}

\* the selectors validateSelector is called with
SelectorInputs ==
  {DataSelector(p, l, s) : p \in {GoodPath, BadPath, PopupPath, Undef},
                           l \in Languages, s \in Statuses}

\* the primary selectors of the getContent requests
PrimaryInputs ==
  {UNDEFINED,
   DataSelector(GoodPath, "css", Undef),
   DataSelector(GoodPath, Undef, SelectorStatus.INVALID),
   DataSelector(BadPath, "css", SelectorStatus.VALID),
   DataSelector(BadPath, Undef, Undef),
   DataSelector(Undef, "css", Undef),
   DataSelector(EmptyPath, "css", Undef),
   DataSelector(GoodPath, "xpath", Undef)}

\* the entries of clickBefore
ClickInputs ==
  {UNDEFINED,
   DataSelector(PopupPath, Undef, Undef),
   DataSelector(BadPath, "css", SelectorStatus.VALID),
   DataSelector(Undef, Undef, Undef),
   DataSelector(PopupPath, "xpath", Undef)}

ClickBeforeInputs ==
  {[present |-> FALSE, list |-> <<>>]}
    \cup {[present |-> TRUE, list |-> l] :
            l \in UNION {[1..n -> ClickInputs] : n \in 0..MaxClicks}}

RequestInputs ==
  {UNDEFINED}
    \cup [selector : PrimaryInputs, url : {UrlPage, UrlRelative},
          clickBefore : ClickBeforeInputs, useCache : BOOLEAN]

\* the caller has received the outcome of the call on slot r and drops the
\* request object; the slot is free for the next call
Release(r) ==
  /\ pc[r] = "done"
  /\ UNCHANGED frontend
  /\ pc' = [pc EXCEPT ![r] = "idle"]
  /\ req' = [req EXCEPT ![r] = UNDEFINED]
  /\ result' = [result EXCEPT ![r] = Pending]
  /\ local' = [local EXCEPT ![r] = NoLocals]
  /\ cpc' = [cpc EXCEPT ![r] = <<>>]
  /\ obs' = [obs EXCEPT ![r] = NoObs]
  /\ UNCHANGED <<cache, files>>

\* no call is in flight
Quiescent == \A r \in Reqs : pc[r] = "idle"

\* one step of the getContent call in flight on slot r
Step(r) ==
  \/ ValidateTextReturns(r)
  \/ LaunchReturns(r)
  \/ CacheGetReturns(r)
  \/ SetContentReturns(r)
  \/ GotoReturns(r)
  \/ ContentReturns(r)
  \/ CacheSetReturns(r)
  \/ WaitForTimeoutReturns(r)
  \/ \E i \in 1..MaxClicks : ClickValidateTextReturns(r, i)
  \/ \E i \in 1..MaxClicks : PageClickReturns(r, i)
  \/ \E i \in 1..MaxClicks : ClickPauseReturns(r, i)
  \/ TextContentReturns(r)
  \/ ScreenshotReturns(r)
  \/ ReadFileReturns(r)
  \/ UnlinkReturns(r)
  \/ CatchUnlinkReturns(r)
  \/ ValidateSelectorReturns(r)

\* the transport layer issues one call after the other
Next ==
  \/ Quiescent /\ \E request \in RequestInputs : GetContent(1, request)
  \/ Quiescent /\ \E selector \in SelectorInputs : ValidateSelector(1, selector)
  \/ \E r \in Reqs : Step(r)
  \/ \E r \in Reqs : Release(r)

Spec == Init /\ [][Next]_vars

\* every awaited external operation eventually returns or fails: the call
\* in flight on a slot is eventually resumed
Live == \A r \in Reqs : WF_vars(Step(r))

LiveSpec == Spec /\ Live

(***************************************************************************)
(* Requests for several addresses, one after the other: the caller sends   *)
(* the second request once the first one has returned a content, and keeps *)
(* the outcome of the first one while the second one runs                  *)
(***************************************************************************)
\* the requests `evaluate` sends for a page: the selector of the page and
\* clickBefore = [popupSelector], where popupSelector may be undefined
AddressRequests ==
  [selector : {DataSelector(GoodPath, "css", Undef)},
   url : {UrlPage, UrlPageQuery, UrlOtherHost},
   clickBefore : {[present |-> TRUE, list |-> <<UNDEFINED>>],
                  [present |-> TRUE,
                   list |-> <<DataSelector(PopupPath, "css", Undef)>>]},
   useCache : {TRUE}]

AddressSelectors ==
  {DataSelector(GoodPath, "css", Undef), DataSelector(BadPath, "css", Undef)}

NextAddresses ==
  \/ Quiescent /\ \E request \in AddressRequests : GetContent(1, request)
  \/ /\ pc[1] = "done" /\ pc[2] = "idle"
     /\ result[1].state = "fulfilled"
     /\ obs[1].call = "getContent"
     /\ \E request \in AddressRequests : GetContent(2, request)
  \/ Quiescent /\ \E selector \in AddressSelectors :
                    ValidateSelector(1, selector)
  \/ \E r \in Reqs : Step(r)
  \/ \E r \in Reqs : Release(r)

SpecAddresses == Init /\ [][NextAddresses]_vars

(***************************************************************************)
(* Concurrent requests: the server handles every socket event as it comes, *)
(* a request may be called while another one is suspended at an await      *)
(***************************************************************************)
\* the requests `evaluate` sends for one page: a client with a popup
\* selector, or without, on the first slot, and a client without popup
\* selector on the second one
ConcurrentRequests ==
  [selector : {DataSelector(GoodPath, "css", Undef)},
   url : {UrlPage},
   clickBefore : {[present |-> TRUE, list |-> <<UNDEFINED>>],
                  [present |-> TRUE,
                   list |-> <<DataSelector(PopupPath, "css", Undef)>>]},
   useCache : {TRUE}]

RequestsWithoutPopup ==
  {request \in ConcurrentRequests : request.clickBefore.list = <<UNDEFINED>>}

NextConcurrent ==
  \/ pc[1] = "idle" /\ \E request \in ConcurrentRequests :
                          GetContent(1, request)
  \/ pc[2] = "idle" /\ \E request \in RequestsWithoutPopup :
                          GetContent(2, request)
  \/ Quiescent /\ \E selector \in AddressSelectors :
                    ValidateSelector(1, selector)
  \/ \E r \in Reqs : Step(r)
  \/ \E r \in Reqs : Release(r)

SpecConcurrent == Init /\ [][NextConcurrent]_vars

(***************************************************************************)
(* Frontend: the SelectorConfig component.  An action is one event of the  *)
(* page (an edit, a click, a response of the backend, new props from the   *)
(* parent): the handler, the render that follows, and the effect when one  *)
(* of its dependencies has changed.                                        *)
(***************************************************************************)
UrlLocalhost == "http://localhost:3000/page"

\* the sampleUrl prop: a URL object, or undefined
SampleUrls == {Undef, UrlPage, UrlLocalhost}

\* isURL of the validator library: an address needs a top-level domain
isURL(str) == str \in {UrlPage, UrlPageQuery, UrlOtherHost}

\* part_001, lines 19-23
createSelector == DataSelector(Undef, Undef, Undef)

Data(name, selector) == [name |-> name, selector |-> selector]

\* the callbacks of the parent called during the last event, with their
\* arguments, and the data object and the response the event was about
NoCalls(name) ==
  [name |-> name, onChange |-> <<>>, onConfigured |-> <<>>, onError |-> 0,
   data |-> UNDEFINED, response |-> UNDEFINED]

\* the component at its first render, lines 59-95; dataId tells the data
\* objects the parent passes from one another, pending is the request the
\* backend has not answered yet
FirstRender(data, sampleUrl) ==
  [mounted |-> TRUE, data |-> data, dataId |-> 0, sampleUrl |-> sampleUrl,
   selector |-> UNDEFINED, selectorStatus |-> Undef, dataName |-> "",
   isPopup |-> FALSE, popupSelector |-> UNDEFINED,
   popupSelectorStatus |-> Undef, evaluation |-> UNDEFINED,
   evaluationHelperMessage |-> "", isEvaluationEnabled |-> FALSE,
   isBackendError |-> FALSE, isLoading |-> FALSE,
   pending |-> UNDEFINED, event |-> NoCalls("mount")]

\* lines 209-215
IsEvaluationEnabled(c) ==
  LET condition == /\ c.sampleUrl # Undef
                   /\ isURL(c.sampleUrl)
                   /\ c.selector # UNDEFINED
                   /\ c.selector.status = SelectorStatus.VALID
  IN  IF c.isPopup /\ c.popupSelector # UNDEFINED
        THEN condition /\ c.popupSelector.status = SelectorStatus.VALID
        ELSE condition

\* lines 217-229
EvaluationHelperMessage(c) ==
  IF c.sampleUrl = Undef \/ ~isURL(c.sampleUrl)
    THEN "field.evaluation.disabled_incorrect_sample_url"
    ELSE IF c.selector # UNDEFINED
            /\ c.selector.status = SelectorStatus.INVALID
      THEN "field.evaluation.disabled"
      ELSE IF /\ c.isPopup
              /\ c.popupSelector # UNDEFINED
              /\ c.popupSelector.status = SelectorStatus.INVALID
        THEN "field.evaluation.disabled"
        ELSE "field.evaluation.enabled"

\* lines 207-257: the effect, run with the state of the render c
UseEffect(c) ==
  LET reset == c.dataName # c.data.name
  IN  [c EXCEPT
         !.dataName = c.data.name,
         !.selector = IF ~reset THEN @
                      ELSE IF c.data.selector # UNDEFINED
                        THEN c.data.selector
                        ELSE createSelector,
         !.popupSelector = IF reset /\ @ = UNDEFINED THEN createSelector
                                                     ELSE @,
         !.evaluation = IF reset THEN UNDEFINED ELSE @,
         !.isEvaluationEnabled = IsEvaluationEnabled(c),
         !.evaluationHelperMessage = EvaluationHelperMessage(c)]

\* line 257: the dependencies of the effect
Dependencies(c) ==
  <<c.sampleUrl, c.dataId, c.selectorStatus, c.popupSelectorStatus,
    c.isPopup>>

\* the render after a handler has changed the state from before to after
Rendered(before, after) ==
  IF Dependencies(after) # Dependencies(before) THEN UseEffect(after)
                                                ELSE after

\* the data objects and the selectors the parent and the inputs hand in
DataName == "test-data"
DataInputs ==
  {Data(DataName, UNDEFINED),
   Data(DataName, DataSelector(GoodPath, "css", SelectorStatus.VALID))}

\* the data object the parent may pass after the first render
OtherData == Data("other-data", UNDEFINED)

\* what a SelectorInput passes to onChange: the path typed, with the status
\* the validation has given it so far
SelectorEdits ==
  {DataSelector(GoodPath, "css", Undef),
   DataSelector(GoodPath, "css", SelectorStatus.VALID),
   DataSelector(BadPath, "css", SelectorStatus.INVALID)}

PopupEdits ==
  {DataSelector(PopupPath, "css", SelectorStatus.VALID),
   DataSelector(BadPath, "css", SelectorStatus.INVALID)}

\* the parent renders the component
MountSelectorConfig(data, sampleUrl) ==
  /\ ~selectorConfig.mounted
  /\ selectorConfig' = UseEffect(FirstRender(data, sampleUrl))
  /\ UNCHANGED <<engine, cssSelector, debounced, scrapingConfigurator>>

\* lines 101-110
onDataSelectorChange(s) ==
  /\ selectorConfig.mounted
  /\ selectorConfig.selector # UNDEFINED
  /\ LET c == selectorConfig
         data == [c.data EXCEPT !.selector = s]
     IN  selectorConfig' =
           Rendered(c, [c EXCEPT
                          !.selector = s,
                          !.selectorStatus = s.status,
                          !.data = data,
                          !.event = [NoCalls("onDataSelectorChange")
                                       EXCEPT !.onChange = <<data>>]])
  /\ UNCHANGED <<engine, cssSelector, debounced, scrapingConfigurator>>

\* lines 113-121
onPopupSelectorChange(s) ==
  /\ selectorConfig.mounted
  /\ selectorConfig.isPopup
  /\ selectorConfig.popupSelector # UNDEFINED
  /\ LET c == selectorConfig
         data == [c.data EXCEPT !.selector = s]
     IN  selectorConfig' =
           Rendered(c, [c EXCEPT
                          !.popupSelector = s,
                          !.popupSelectorStatus = s.status,
                          !.data = data,
                          !.event = [NoCalls("onPopupSelectorChange")
                                       EXCEPT !.onChange = <<data>>]])
  /\ UNCHANGED <<engine, cssSelector, debounced, scrapingConfigurator>>

\* lines 193-195
switchCookiePopupSelector ==
  /\ selectorConfig.mounted
  /\ LET c == selectorConfig
     IN  selectorConfig' =
           Rendered(c, [c EXCEPT
                          !.isPopup = ~c.isPopup,
                          !.event = NoCalls("switchCookiePopupSelector")])
  /\ UNCHANGED <<engine, cssSelector, debounced, scrapingConfigurator>>

\* scraping.ts, lines 11-22: the request emitted as 'scraping:get-content'
evaluate(s, url, popupSelector) ==
  [selector |-> s, url |-> url,
   clickBefore |-> [present |-> TRUE, list |-> <<popupSelector>>],
   useCache |-> TRUE]

\* a click that sends the popup selector whatever the switch says
evaluateSelectorPathSendingPopup ==
  /\ selectorConfig.mounted
  /\ ~selectorConfig.isLoading
  /\ selectorConfig.isEvaluationEnabled
  /\ LET c == selectorConfig
         emitted == /\ c.selector # UNDEFINED
                    /\ c.selector.path # Undef
                    /\ c.sampleUrl # Undef
     IN  selectorConfig' =
           Rendered(c, [c EXCEPT
                          !.evaluation = UNDEFINED,
                          !.isLoading = TRUE,
                          !.isBackendError = FALSE,
                          !.pending =
                            IF emitted
                              THEN [request |->
                                      evaluate(c.selector, c.sampleUrl,
                                               c.popupSelector),
                                    stale |-> FALSE, data |-> c.data]
                              ELSE @,
                          !.event = NoCalls("evaluateSelectorPath")])
  /\ UNCHANGED <<engine, cssSelector, debounced, scrapingConfigurator>>

\* lines 133-156: a click on the evaluation button, which is rendered when
\* the component is not loading and is disabled unless isEvaluationEnabled
evaluateSelectorPath ==
  /\ selectorConfig.mounted
  /\ ~selectorConfig.isLoading
  /\ selectorConfig.isEvaluationEnabled
  /\ LET c == selectorConfig
         cookiePpSelector == IF c.isPopup THEN c.popupSelector ELSE UNDEFINED
         emitted == /\ c.selector # UNDEFINED
                    /\ c.selector.path # Undef
                    /\ c.sampleUrl # Undef
     IN  selectorConfig' =
           Rendered(c, [c EXCEPT
                          !.evaluation = UNDEFINED,
                          !.isLoading = TRUE,
                          !.isBackendError = FALSE,
                          !.pending =
                            IF emitted
                              THEN [request |->
                                      evaluate(c.selector, c.sampleUrl,
                                               cookiePpSelector),
                                    stale |-> FALSE, data |-> c.data]
                              ELSE @,
                          !.event = NoCalls("evaluateSelectorPath")])
  /\ UNCHANGED <<engine, cssSelector, debounced, scrapingConfigurator>>

\* the response the callback does not hand on to the parent
getContentCallbackSilent(c, data, response) ==
  [c EXCEPT !.evaluation = response,
            !.isLoading = FALSE,
            !.pending = UNDEFINED,
            !.event = [NoCalls("response") EXCEPT !.data = data]]

\* a callback that takes every failure for a failure of the backend
getContentCallbackAlarmist(c, data, response) ==
  IF response.status = ScrapingStatus.SUCCESS
    THEN LET configured == [data EXCEPT !.selector = response.selector]
         IN  [c EXCEPT
                !.evaluation = response,
                !.data = IF c.pending.stale THEN @ ELSE configured,
                !.isLoading = FALSE,
                !.pending = UNDEFINED,
                !.event = [NoCalls("response") EXCEPT
                             !.onConfigured = <<configured>>,
                             !.data = data]]
    ELSE [c EXCEPT
            !.evaluation = response,
            !.isBackendError = TRUE,
            !.isLoading = FALSE,
            !.pending = UNDEFINED,
            !.event = [NoCalls("response") EXCEPT !.onError = 1,
                                                  !.data = data]]

\* lines 158-187: the callback of getContent; data is the data object of the
\* render in which the button was clicked
getContentCallback(c, data, response) ==
  IF response.status = ScrapingStatus.SUCCESS
    THEN LET configured == [data EXCEPT !.selector = response.selector]
         IN  [c EXCEPT
                !.evaluation = response,
                !.data = IF c.pending.stale THEN @ ELSE configured,
                !.isLoading = FALSE,
                !.pending = UNDEFINED,
                !.event = [NoCalls("response") EXCEPT
                             !.onConfigured = <<configured>>,
                             !.data = data]]
    ELSE [c EXCEPT
            !.evaluation = response,
            !.isBackendError = @ \/ response.status = ScrapingStatus.ERROR,
            !.isLoading = FALSE,
            !.pending = UNDEFINED,
            !.event = [NoCalls("response") EXCEPT !.onError = 1,
                                                  !.data = data]]

\* what getContent of the backend answers to a request: a ScrapedContent
\* with the selector validated, or a ScrapingError
ResponseStatuses ==
  {ScrapingStatus.SUCCESS, ScrapingStatus.INVALID_SELECTOR,
   ScrapingStatus.ERROR, ScrapingStatus.NO_CONTENT,
   ScrapingStatus.ELEMENT_NOT_FOUND}

ResponseTo(request, status) ==
  IF status = ScrapingStatus.SUCCESS
    THEN ScrapedContent("a content",
                        [request.selector EXCEPT
                           !.status = SelectorStatus.VALID],
                        DataUri(Base64(Png(1))))
    ELSE IF status = ScrapingStatus.INVALID_SELECTOR
      THEN ScrapingError(status, [request.selector EXCEPT
                                    !.status = SelectorStatus.INVALID])
      ELSE ScrapingError(status, request.selector)

\* the backend answers the request in flight
getContentResponds(status) ==
  /\ selectorConfig.mounted
  /\ selectorConfig.pending # UNDEFINED
  /\ LET c == selectorConfig
         data == IF c.pending.stale THEN c.pending.data ELSE c.data
         response == ResponseTo(c.pending.request, status)
     IN  selectorConfig' =
           Rendered(c, [getContentCallback(c, data, response) EXCEPT
                          !.event.response = response])
  /\ UNCHANGED <<engine, cssSelector, debounced, scrapingConfigurator>>

\* the parent renders the component again, with another sample address and,
\* unless data is undefined, with another data object
SetProps(data, sampleUrl) ==
  /\ selectorConfig.mounted
  /\ LET c == selectorConfig
         replaced == data # UNDEFINED
     IN  selectorConfig' =
           UseEffect([c EXCEPT
                        !.data = IF replaced THEN data ELSE @,
                        !.dataId = IF replaced THEN 1 - @ ELSE @,
                        !.sampleUrl = sampleUrl,
                        !.pending =
                          IF @ # UNDEFINED /\ replaced /\ ~@.stale
                            THEN [@ EXCEPT !.stale = TRUE, !.data = c.data]
                            ELSE @,
                        !.event = NoCalls("props")])
  /\ UNCHANGED <<engine, cssSelector, debounced, scrapingConfigurator>>

NextSelectorConfig ==
  \/ \E data \in DataInputs, sampleUrl \in SampleUrls :
       MountSelectorConfig(data, sampleUrl)
  \/ \E s \in SelectorEdits : onDataSelectorChange(s)
  \/ \E s \in PopupEdits : onPopupSelectorChange(s)
  \/ switchCookiePopupSelector
  \/ evaluateSelectorPath
  \/ \E status \in ResponseStatuses : getContentResponds(status)
  \/ \E data \in {UNDEFINED, OtherData}, sampleUrl \in SampleUrls :
       SetProps(data, sampleUrl)

SpecSelectorConfig == Init /\ [][NextSelectorConfig]_vars

\* the backend answers every request it has received: the acknowledgement
\* of 'scraping:get-content' eventually comes
LiveSelectorConfig ==
  WF_vars(\E status \in ResponseStatuses : getContentResponds(status))

LiveSpecSelectorConfig == SpecSelectorConfig /\ LiveSelectorConfig

(***************************************************************************)
(* Frontend: validateCssSelector of the socket wrapper, scraping.ts 31-37  *)
(***************************************************************************)
RemoveAt(seq, i) ==
  [j \in 1..(Len(seq) - 1) |-> IF j < i THEN seq[j] ELSE seq[j + 1]]

\* a timer of the debounce has run out and has not fired yet
TimerDue ==
  \E i \in DOMAIN debounced.timers : debounced.timers[i].left = 0

\* lines 32-36: debounce(...) makes a new debounced function, with a timer
\* of its own, and the call `()` starts that timer
debounce(timers, p) ==
  Append(timers, [left |-> Wait, p |-> p])

\* lines 31-37
validateCssSelector(p) ==
  /\ ~TimerDue
  /\ Len(debounced.timers) + debounced.waiting < MaxCalls
  /\ debounced.sinceLast < Wait => debounced.burst.calls < MaxCalls
  /\ debounced' =
       [debounced EXCEPT
          !.timers = debounce(@, p),
          !.sinceLast = 0,
          !.burst = IF debounced.sinceLast < Wait
                      THEN [@ EXCEPT !.calls = @ + 1]
                      ELSE [calls |-> 1, emitted |-> 0]]
  /\ UNCHANGED <<engine, selectorConfig, cssSelector, scrapingConfigurator>>

\* 500 ms pass
Tick ==
  /\ ~TimerDue
  /\ debounced.timers # <<>> \/ debounced.sinceLast < Wait
  /\ debounced' =
       [debounced EXCEPT
          !.timers = [i \in DOMAIN @ |-> [@[i] EXCEPT !.left = @ - 1]],
          !.sinceLast = IF @ < Wait THEN @ + 1 ELSE @]
  /\ UNCHANGED <<engine, selectorConfig, cssSelector, scrapingConfigurator>>

\* lines 32-33: the wait of a debounced function is over, it emits
\* 'scraping:validate-css-selector'
TimerFires(i) ==
  /\ i \in DOMAIN debounced.timers
  /\ debounced.timers[i].left = 0
  /\ debounced' =
       [debounced EXCEPT
          !.timers = RemoveAt(@, i),
          !.waiting = @ + 1,
          !.burst.emitted = @ + 1]
  /\ UNCHANGED <<engine, selectorConfig, cssSelector, scrapingConfigurator>>

\* lines 33-35: the backend acknowledges a message, the callback is called
ValidityAnswered(isValid) ==
  /\ debounced.waiting > 0
  /\ debounced' = [debounced EXCEPT !.waiting = @ - 1,
                                     !.isValid = isValid]
  /\ UNCHANGED <<engine, selectorConfig, cssSelector, scrapingConfigurator>>

NextDebounce ==
  \/ \E p \in SelectorEdits : validateCssSelector(p)
  \/ Tick
  \/ \E i \in 1..MaxCalls : TimerFires(i)
  \/ \E isValid \in BOOLEAN : ValidityAnswered(isValid)

SpecDebounce == Init /\ [][NextDebounce]_vars

(***************************************************************************)
(* Frontend: the CSSSelector component, part_002.  The selector being      *)
(* configured is one object, changed in place by the handlers and by the   *)
(* effect; the state newSelector is a reference to it, or undefined.       *)
(***************************************************************************)
\* bound on the requests of the component the backend has not answered
MaxPending == 2

Blank(str) == str = Undef \/ str = ""

\* part_002, lines 17-23, with the fields the component adds to it
Selector(path, url) == [path |-> path, url |-> url]

\* one run of the effect: the callbacks it has called, and the evaluation
\* status and the bypass switch it has run with
EffectRun(c, onError, onConfigured) ==
  [onError |-> onError, onConfigured |-> onConfigured,
   evaluationStatus |-> c.evaluationStatus,
   isByPassEvaluation |-> c.isByPassEvaluation]

\* the component at its first render, lines 52-95; object is the selector
\* being configured, runs the runs of the effect during the last event
FirstRenderCss(selector, pageUrl) ==
  [mounted |-> TRUE, selector |-> selector, pageUrl |-> pageUrl,
   path |-> "", newSelector |-> FALSE,
   object |-> IF selector = UNDEFINED THEN Selector(Undef, Undef)
                                      ELSE selector,
   isByPassEvaluation |-> FALSE, evaluation |-> Undef,
   evaluationStatus |-> Undef, isLoading |-> FALSE,
   isSelectorPathValid |-> Undef, isEvaluationEnabled |-> FALSE,
   isCheckEnabled |-> FALSE, evaluations |-> 0, validations |-> 0,
   runs |-> <<>>]

\* lines 228-268: the effect, run with the state of the render c
UseEffectCss(c) ==
  LET \* lines 231-247: the url of the object is set in both cases
      object == [c.object EXCEPT !.url = c.pageUrl]
      \* lines 250-256, with the newSelector of the render
      evaluable == /\ c.newSelector
                   /\ ~Blank(object.url) /\ ~Blank(object.path)
      checkable == c.newSelector /\ ~Blank(object.path)
      \* lines 259-263
      succeeded == c.newSelector /\ c.evaluationStatus = "success"
      \* lines 266-268
      bypassed == c.newSelector /\ c.isByPassEvaluation
  IN  [c EXCEPT
         !.newSelector = TRUE,
         !.object = object,
         !.isEvaluationEnabled = @ \/ evaluable,
         !.isCheckEnabled = @ \/ checkable,
         !.runs = Append(@, EffectRun(c,
                                      IF succeeded THEN 0 ELSE 1,
                                      (IF succeeded THEN 1 ELSE 0)
                                        + (IF bypassed THEN 1 ELSE 0)))]

\* line 270: the dependencies of the effect
DependenciesCss(c) ==
  <<c.newSelector, c.pageUrl, c.path, c.evaluationStatus,
    c.isByPassEvaluation>>

\* the renders after a handler has changed the state from before to after:
\* the effect runs when a dependency has changed, and once more when it has
\* changed newSelector itself
RenderedCss(before, after) ==
  IF DependenciesCss(after) = DependenciesCss(before)
    THEN after
    ELSE LET first == UseEffectCss(after)
         IN  IF DependenciesCss(first) = DependenciesCss(after)
               THEN first
               ELSE UseEffectCss(first)

\* the handler starts from the state c, no effect has run yet
Handling(c) == [c EXCEPT !.runs = <<>>]

\* the props and the inputs
SelectorProps == {UNDEFINED, Selector(GoodPath, Undef)}
PageUrls == {Undef, "", UrlPage}
PathInputs == {"", GoodPath, BadPath}
ContentsReturned == {Undef, Null, "a content"}

\* the parent renders the component: the effect runs, sets newSelector,
\* and runs again
MountCSSSelector(selector, pageUrl) ==
  /\ ~cssSelector.mounted
  /\ cssSelector' =
       UseEffectCss(UseEffectCss(FirstRenderCss(selector, pageUrl)))
  /\ UNCHANGED <<engine, selectorConfig, debounced, scrapingConfigurator>>

\* lines 106-119
onSelectorChange(val) ==
  /\ cssSelector.mounted
  /\ LET c == Handling(cssSelector)
     IN  cssSelector' =
           RenderedCss(c, [c EXCEPT
                             !.path = val,
                             !.isCheckEnabled = @ \/ ~Blank(val),
                             !.isEvaluationEnabled =
                               @ \/ (c.newSelector /\ ~Blank(c.object.url))])
  /\ UNCHANGED <<engine, selectorConfig, debounced, scrapingConfigurator>>

\* lines 128-146
onSelectorBlur ==
  /\ cssSelector.mounted
  /\ LET c == Handling(cssSelector)
         p == [(IF c.newSelector THEN c.object ELSE Selector(Undef, Undef))
                 EXCEPT !.path = c.path]
     IN  cssSelector' =
           RenderedCss(c, [c EXCEPT
                             !.object = p,
                             !.newSelector = TRUE,
                             !.isCheckEnabled = @ \/ ~Blank(p.path),
                             !.isEvaluationEnabled = @ \/ ~Blank(p.url)])
  /\ UNCHANGED <<engine, selectorConfig, debounced, scrapingConfigurator>>

\* lines 155-169: a click on the validity button
checkSelectorValidity ==
  /\ cssSelector.mounted
  /\ cssSelector.isCheckEnabled
  /\ cssSelector.evaluations + cssSelector.validations < MaxPending
  /\ LET c == Handling(cssSelector)
     IN  cssSelector' =
           IF c.newSelector
             THEN RenderedCss(c, [c EXCEPT !.isLoading = TRUE,
                                           !.validations = @ + 1])
             ELSE c
  /\ UNCHANGED <<engine, selectorConfig, debounced, scrapingConfigurator>>

\* lines 159-166: the backend answers a validation
ValidityResponds(isValid) ==
  /\ cssSelector.mounted
  /\ cssSelector.validations > 0
  /\ LET c == Handling(cssSelector)
     IN  cssSelector' =
           RenderedCss(c, [c EXCEPT
                             !.isLoading = FALSE,
                             !.isSelectorPathValid =
                               IF isValid THEN "true" ELSE "false",
                             !.validations = @ - 1])
  /\ UNCHANGED <<engine, selectorConfig, debounced, scrapingConfigurator>>

\* lines 177-201: a click on the evaluation button
evaluateCssSelectorPath ==
  /\ cssSelector.mounted
  /\ cssSelector.isEvaluationEnabled
  /\ cssSelector.evaluations + cssSelector.validations < MaxPending
  /\ LET c == Handling(cssSelector)
     IN  cssSelector' =
           RenderedCss(c, [c EXCEPT
                             !.isLoading = TRUE,
                             !.evaluationStatus = Undef,
                             !.evaluations =
                               IF c.newSelector THEN @ + 1 ELSE @])
  /\ UNCHANGED <<engine, selectorConfig, debounced, scrapingConfigurator>>

\* lines 191-198: the backend answers an evaluation
EvaluationResponds(content) ==
  /\ cssSelector.mounted
  /\ cssSelector.evaluations > 0
  /\ LET c == Handling(cssSelector)
     IN  cssSelector' =
           RenderedCss(c, [c EXCEPT
                             !.evaluation = content,
                             !.evaluationStatus =
                               IF content = Null \/ content = Undef
                                 THEN "error"
                                 ELSE "success",
                             !.isLoading = FALSE,
                             !.evaluations = @ - 1])
  /\ UNCHANGED <<engine, selectorConfig, debounced, scrapingConfigurator>>

\* lines 209-211: the switch, rendered unless the evaluation has succeeded
\* (lines 346-351)
byPassEvaluation(checked) ==
  /\ cssSelector.mounted
  /\ cssSelector.evaluationStatus # "success"
  /\ checked # cssSelector.isByPassEvaluation
  /\ LET c == Handling(cssSelector)
     IN  cssSelector' =
           RenderedCss(c, [c EXCEPT !.isByPassEvaluation = checked])
  /\ UNCHANGED <<engine, selectorConfig, debounced, scrapingConfigurator>>

\* the parent renders the component again with another page address
SetPageUrl(pageUrl) ==
  /\ cssSelector.mounted
  /\ LET c == Handling(cssSelector)
     IN  cssSelector' = RenderedCss(c, [c EXCEPT !.pageUrl = pageUrl])
  /\ UNCHANGED <<engine, selectorConfig, debounced, scrapingConfigurator>>

NextCSSSelector ==
  \/ \E selector \in SelectorProps, pageUrl \in PageUrls :
       MountCSSSelector(selector, pageUrl)
  \/ \E val \in PathInputs : onSelectorChange(val)
  \/ onSelectorBlur
  \/ checkSelectorValidity
  \/ \E isValid \in BOOLEAN : ValidityResponds(isValid)
  \/ evaluateCssSelectorPath
  \/ \E content \in ContentsReturned : EvaluationResponds(content)
  \/ \E checked \in BOOLEAN : byPassEvaluation(checked)
  \/ \E pageUrl \in PageUrls : SetPageUrl(pageUrl)

SpecCSSSelector == Init /\ [][NextCSSSelector]_vars

(***************************************************************************)
(* Frontend: the ScrapingConfigurator component, a drawer in which the     *)
(* selector of one element of the page is typed                            *)
(***************************************************************************)
\* the element prop: the elements of the page that can be configured; ref
\* tells the objects apart, as the dependencies of an effect are compared
\* by identity: the parent may pass another object with the same label
ScrapingElement(label, ref) == [label |-> label, ref |-> ref]
ElementInputs ==
  {ScrapingElement(label, ref) :
     label \in {"title", "price", "image"}, ref \in {1, 2}}

\* the texts typed in the text area
SelectorTexts == {"", GoodPath, BadPath, PopupPath}

\* the last event of the component: its name, whether the drawer was open
\* when it came, and what it has written on the console
Event(name, wasOpen, logged) ==
  [name |-> name, wasOpen |-> wasOpen, logged |-> logged]

\* lines 18-22: the component at its first render
FirstRenderConfigurator(element) ==
  [mounted |-> TRUE, element |-> element, isDrawerOpen |-> FALSE,
   proposal |-> Undef, selector |-> Undef,
   event |-> Event("mount", FALSE, <<>>)]

\* lines 24-26, with the isDrawerOpen of the render c
toggleDrawer(c) == [c EXCEPT !.isDrawerOpen = ~c.isDrawerOpen]

\* lines 44-47: the effect, run with the state of the render c
UseEffectConfigurator(c) == [toggleDrawer(c) EXCEPT !.proposal = Undef]

\* the parent renders the component
MountScrapingConfigurator(element) ==
  /\ ~scrapingConfigurator.mounted
  /\ scrapingConfigurator' =
       UseEffectConfigurator(FirstRenderConfigurator(element))
  /\ UNCHANGED <<engine, selectorConfig, cssSelector, debounced>>

\* the parent passes another element: the render is followed by the effect,
\* element being its dependency (line 47)
SetElement(element) ==
  /\ scrapingConfigurator.mounted
  /\ element # scrapingConfigurator.element
  /\ LET c == scrapingConfigurator
     IN  scrapingConfigurator' =
           UseEffectConfigurator(
             [c EXCEPT !.element = element,
                       !.event = Event("element", c.isDrawerOpen, <<>>)])
  /\ UNCHANGED <<engine, selectorConfig, cssSelector, debounced>>

\* line 54: the drawer is closed by a click on its mask or by the escape key
onClose ==
  /\ scrapingConfigurator.mounted
  /\ scrapingConfigurator.isDrawerOpen
  /\ LET c == scrapingConfigurator
     IN  scrapingConfigurator' =
           toggleDrawer([c EXCEPT !.event = Event("onClose", TRUE, <<>>)])
  /\ UNCHANGED <<engine, selectorConfig, cssSelector, debounced>>

\* lines 28-32: a text is typed in the text area of the open drawer
changeSelector(value) ==
  /\ scrapingConfigurator.mounted
  /\ scrapingConfigurator.isDrawerOpen
  /\ scrapingConfigurator' =
       [scrapingConfigurator EXCEPT
          !.selector = value,
          !.event = Event("changeSelector", TRUE, <<>>)]
  /\ UNCHANGED <<engine, selectorConfig, cssSelector, debounced>>

\* lines 34-36: a click on the button of the open drawer
evaluateSelector ==
  /\ scrapingConfigurator.mounted
  /\ scrapingConfigurator.isDrawerOpen
  /\ scrapingConfigurator' =
       [scrapingConfigurator EXCEPT
          !.event = Event("evaluateSelector", TRUE,
                          <<scrapingConfigurator.selector>>)]
  /\ UNCHANGED <<engine, selectorConfig, cssSelector, debounced>>

NextScrapingConfigurator ==
  \/ \E element \in ElementInputs : MountScrapingConfigurator(element)
  \/ \E element \in ElementInputs : SetElement(element)
  \/ onClose
  \/ \E value \in SelectorTexts : changeSelector(value)
  \/ evaluateSelector

SpecScrapingConfigurator == Init /\ [][NextScrapingConfigurator]_vars

(***************************************************************************)
(* Properties                                                              *)
(***************************************************************************)
IsGetContent(r) == obs[r].call = "getContent"
IsValidateSelector(r) == obs[r].call = "validateSelector"
Done(r) == pc[r] = "done"
Failed(r) == result[r].state = "rejected"
Succeeded(r) == result[r].state = "fulfilled"

FailureStatuses ==
  {ScrapingStatus.INVALID_SELECTOR, ScrapingStatus.NO_CONTENT,
   ScrapingStatus.ELEMENT_NOT_FOUND, ScrapingStatus.ERROR}

\* C1: every getContent call settles with a ScrapedContent (Success) or with
\* a ScrapingError whose status is InvalidSelector, NoContent,
\* ElementNotFound or Error, and with nothing else, for every request,
\* a request with a malformed url included.
C1_SettlesWithResultRecord ==
  \A r \in Reqs :
    IsGetContent(r) /\ Done(r) =>
      \/ /\ Succeeded(r)
         /\ result[r].value.class = "ScrapedContent"
      \/ /\ Failed(r)
         /\ result[r].value.class = "ScrapingError"
         /\ result[r].value.status \in FailureStatuses

C3_FailedClickNeverExtracts ==
  \A r \in Reqs :
    IsGetContent(r) /\ obs[r].clickFailed =>
      /\ ~obs[r].textRead /\ ~obs[r].shot /\ ~obs[r].wrote
      /\ pc[r] \in {"clickBefore", "catch:unlink", "done"}
      /\ Done(r) => Failed(r)

\* a request with two entries, one clicked and one failed, has failed
C3_Witness ==
  \E r \in Reqs :
    /\ IsGetContent(r) /\ Done(r) /\ Failed(r)
    /\ obs[r].clickFailed /\ obs[r].clicked
    /\ Len(cpc[r]) = 2

\* C4: the stages run in the order Validate, Acquire, Interact, Extract: the
\* browser is launched only after the checker accepted the primary selector,
\* the cache and the network are used only after the launch, a pre-click
\* starts only on an acquired page, and the extraction starts only on an
\* acquired page after every pre-click has ended without failure.
C4_StageOrder ==
  \A r \in Reqs :
    IsGetContent(r) =>
      /\ obs[r].launched =>
           /\ obs[r].primary = "ok"
           /\ CheckerAccepts(RuleText(req[r].selector.path))
           /\ req[r].selector.status = SelectorStatus.VALID
      /\ obs[r].cacheRead \/ obs[r].navigated \/ obs[r].injected
           \/ obs[r].cacheWritten \/ obs[r].acquired => obs[r].launched
      /\ obs[r].clickStarted \/ obs[r].clicked \/ pc[r] = "clickBefore" =>
           obs[r].acquired
      /\ obs[r].textRead =>
           /\ obs[r].acquired
           /\ ~obs[r].clickFailed
           /\ \A i \in DOMAIN cpc[r] : cpc[r][i] = "done"
      /\ obs[r].shot => obs[r].textRead

\* the extraction has started after a pre-click on a page loaded live
C4_Witness ==
  \E r \in Reqs :
    /\ IsGetContent(r) /\ pc[r] = "screenshot"
    /\ obs[r].clicked /\ obs[r].navigated /\ obs[r].cacheWritten

\* C5: when the checker reports the primary selector path as not valid CSS,
\* getContent fails with InvalidSelector and has launched no browser,
\* navigated nowhere and neither read nor written the cache.
C5_InvalidPrimaryTouchesNothing ==
  \A r \in Reqs :
    /\ IsGetContent(r)
    /\ obs[r].primary = "ok"
    /\ ~CheckerAccepts(RuleText(obs[r].given.selector.path))
    => /\ Done(r) /\ Failed(r)
       /\ result[r].value.class = "ScrapingError"
       /\ result[r].value.status = ScrapingStatus.INVALID_SELECTOR
       /\ result[r].value.selector.path = obs[r].given.selector.path
       /\ ~obs[r].launched /\ ~obs[r].navigated /\ ~obs[r].injected
       /\ ~obs[r].cacheRead /\ ~obs[r].cacheWritten

\* a request for '.a-bad-selector' has failed while the cache holds an entry
C5_Witness ==
  \E r \in Reqs :
    /\ IsGetContent(r) /\ Done(r)
    /\ obs[r].primary = "ok"
    /\ obs[r].given.selector.path = BadPath
    /\ obs[r].given.url = UrlPage
    /\ cache[CacheKey(UrlPage)] # NoEntry

\* C6: validateSelector called with a language other than css fails with
\* the DataSelectorValidityError, and has accessed neither the checker, nor
\* the browser, nor the network, nor the cache; so does the validation of
\* the primary selector inside getContent, which then fails at once.
C6_UnsupportedLanguageFailsFirst ==
  \A r \in Reqs :
    /\ (/\ IsValidateSelector(r)
        /\ obs[r].given.selector.language \notin {"css", Undef})
       => /\ Done(r)
          /\ result[r] =
               Rejected(DataSelectorValidityError(obs[r].given.selector))
          /\ req[r].selector = obs[r].given.selector
          /\ ~obs[r].checker /\ ~obs[r].launched /\ ~obs[r].navigated
          /\ ~obs[r].cacheRead /\ ~obs[r].cacheWritten
    /\ (/\ IsGetContent(r)
        /\ ~InvalidCall(obs[r].given)
        /\ obs[r].given.selector.language \notin {"css", Undef})
       => /\ Done(r) /\ Failed(r)
          /\ ~obs[r].checker /\ ~obs[r].launched /\ ~obs[r].navigated
          /\ ~obs[r].cacheRead /\ ~obs[r].cacheWritten

\* validateSelector was called with a syntactically valid xpath selector
C6_Witness ==
  \E r \in Reqs :
    /\ IsValidateSelector(r) /\ Done(r)
    /\ obs[r].given.selector.language = "xpath"
    /\ obs[r].given.selector.path = GoodPath

\* the selector validateSelector is expected to return for a verdict
C7_Expected(selector) ==
  [selector EXCEPT !.status =
     IF RuleText(selector.path) \in ValidRules THEN "valid" ELSE "invalid"]

\* C7: for a selector with language css or unset, when the checker runs
\* cleanly validateSelector returns the selector (mutated in place) with
\* status valid if the checker accepted "<path> {}" and invalid otherwise,
\* whatever status the selector had before.
C7_StatusFollowsVerdict ==
  \A r \in Reqs :
    /\ IsValidateSelector(r) /\ Done(r)
    /\ obs[r].given.selector.language \in {"css", Undef}
    /\ obs[r].primary = "ok"
    => /\ result[r] = Fulfilled(DataSelectorValidityResponse(
                                  C7_Expected(obs[r].given.selector)))
       /\ req[r].selector = C7_Expected(obs[r].given.selector)

\* a selector marked invalid before was returned as valid
C7_Witness ==
  \E r \in Reqs :
    /\ IsValidateSelector(r) /\ Done(r) /\ Succeeded(r)
    /\ obs[r].given.selector.status = SelectorStatus.INVALID
    /\ result[r].value.selector.status = SelectorStatus.VALID

\* what validateSelector does when the checker throws
C8_ValidateSelectorPart(r) ==
  IsValidateSelector(r) /\ obs[r].primary = "throw" =>
    /\ Done(r)
    /\ result[r] = Rejected(DataSelectorValidityError(obs[r].given.selector))
    /\ req[r].selector = obs[r].given.selector

\* C8 as claimed: when the checker throws, validateSelector fails and leaves
\* the status as it was, and getContent fails with status Error, for the
\* primary selector as well as for a clickBefore selector.
C8_CheckerThrowIsError ==
  \A r \in Reqs :
    /\ C8_ValidateSelectorPart(r)
    /\ IsGetContent(r) /\ Done(r)
         /\ (obs[r].primary = "throw" \/ obs[r].clickThrew)
       => /\ Failed(r)
          /\ result[r].value.status = ScrapingStatus.ERROR

\* C8 as amended: when the checker throws, validateSelector fails and leaves
\* the status as it was; getContent fails, with status Error when the
\* selector is the primary one or the clickBefore entry whose failure
\* completed last; and InvalidSelector is only reported when the failure
\* reported is a clean verdict of the checker.
C8_CheckerThrowNeverInvalid ==
  \A r \in Reqs :
    /\ C8_ValidateSelectorPart(r)
    /\ IsGetContent(r) /\ Done(r)
         /\ (obs[r].primary = "throw" \/ obs[r].clickThrew)
       => Failed(r)
    /\ IsGetContent(r) /\ Done(r)
         /\ (obs[r].primary = "throw" \/ obs[r].lastFailure = "throw")
       => /\ result[r].value.status = ScrapingStatus.ERROR
          /\ IF obs[r].primary = "throw"
               THEN result[r].value.selector = obs[r].given.selector
               ELSE \E i \in DOMAIN cpc[r] :
                      result[r].value.selector =
                        obs[r].given.clickBefore.list[i]
    /\ IsGetContent(r) /\ Done(r) /\ Failed(r)
         /\ result[r].value.class = "ScrapingError"
         /\ result[r].value.status = ScrapingStatus.INVALID_SELECTOR
       => \/ obs[r].primary = "ok" /\ ~obs[r].validated
          \/ obs[r].lastFailure = "verdict"

\* the checker threw for a clickBefore entry after another entry had been
\* rejected as invalid, and getContent failed with status Error
C8_Witness ==
  \E r \in Reqs :
    /\ IsGetContent(r) /\ Done(r) /\ Failed(r)
    /\ obs[r].lastFailure = "throw"
    /\ Len(cpc[r]) = 2
    /\ \E i \in DOMAIN cpc[r] :
         req[r].clickBefore.list[i] =
           DataSelector(BadPath, "css", SelectorStatus.INVALID)

\* C9: whenever the cache holds an entry for the address, the acquisition
\* injects that entry and does not navigate: the page holds exactly the
\* markup an earlier acquisition stored, and the cache is not written.
C9_CacheHitReplaysStoredMarkup ==
  \A r \in Reqs :
    IsGetContent(r) =>
      /\ obs[r].injected =>
           /\ ~obs[r].navigated /\ ~obs[r].cacheWritten
           /\ local[r].cachedHtml = cache[CacheKey(req[r].url)]
           /\ local[r].page \in {NoPage, cache[CacheKey(req[r].url)]}
           /\ obs[r].acquired => local[r].page = cache[CacheKey(req[r].url)]
      /\ obs[r].navigated /\ ~obs[r].cacheWritten =>
           cache[CacheKey(req[r].url)] = NoEntry

\* a request with useCache = true has acquired its page from the cache
C9_Witness ==
  \E r \in Reqs :
    /\ IsGetContent(r)
    /\ obs[r].injected /\ obs[r].acquired
    /\ req[r].useCache
    /\ local[r].page = "<html>v2</html>"

\* C10: a request with useCache = false is never served from the cache: it
\* navigates and overwrites the cache entry of its address.
C10_UseCacheFalseNavigates ==
  \A r \in Reqs :
    IsGetContent(r) /\ obs[r].cacheRead /\ ~req[r].useCache =>
      /\ ~obs[r].injected
      /\ obs[r].acquired => obs[r].navigated /\ obs[r].cacheWritten

\* two addresses with the same host and the same path component
SameHostAndPath(u1, u2) ==
  UrlHostname(u1) = UrlHostname(u2) /\ UrlPathname(u1) = UrlPathname(u2)

\* the entries the cache holds
Entries == {k \in DOMAIN cache : cache[k] # NoEntry}

\* request r has stored the only entry of the cache and has returned, and
\* request s, called afterwards, has read the cache (the second slot is
\* called once the first one has returned)
C11_ReadsAfterStore(r, s) ==
  /\ r = 1 /\ s = 2
  /\ IsGetContent(r) /\ Done(r) /\ obs[r].cacheWritten
  /\ IsGetContent(s) /\ (obs[s].injected \/ obs[s].navigated)
  /\ ~obs[s].cacheWritten
  /\ Cardinality(Entries) = 1

\* C11: an address is served by the cache entry another address stored if
\* and only if both have the same host and the same path component: a
\* request whose address differs in the query only is served the stored
\* markup, a request for the same path on another host navigates, and when
\* it stores its own markup the entry of the first address is still there.
C11_SameEntryIffSameHostAndPath ==
  \A r, s \in Reqs :
    /\ C11_ReadsAfterStore(r, s) =>
         /\ obs[s].injected <=> SameHostAndPath(req[r].url, req[s].url)
         /\ obs[s].injected => local[s].cachedHtml = local[r].cachedHtml
    /\ (/\ r # s
        /\ IsGetContent(r) /\ Done(r) /\ obs[r].cacheWritten
        /\ IsGetContent(s) /\ obs[s].cacheWritten
        /\ ~SameHostAndPath(req[r].url, req[s].url))
       => /\ Cardinality(Entries) >= 2
          /\ \E k \in Entries : cache[k] = local[r].cachedHtml
          /\ \E k \in Entries : cache[k] = local[s].cachedHtml

\* the markup stored for the page is served for the address with a query,
\* after the first request has returned
C11_Witness ==
  /\ C11_ReadsAfterStore(1, 2)
  /\ req[1].url = UrlPage /\ req[2].url = UrlPageQuery
  /\ obs[2].injected /\ obs[2].acquired

\* a request for the same path on another host has stored its own entry
C11_WitnessOtherHost ==
  /\ IsGetContent(1) /\ Done(1) /\ obs[1].cacheWritten
  /\ IsGetContent(2) /\ obs[2].cacheWritten
  /\ req[1].url = UrlPage /\ req[2].url = UrlOtherHost
  /\ local[1].cachedHtml # local[2].cachedHtml

\* the status a failed pre-click is expected to carry, by cause: the click
\* timed out, the click failed otherwise, the checker rejected the selector,
\* the checker threw, or clickElement rejected the entry at once
C12_Classified(cause) ==
  CASE cause = "timeout" -> "element_not_found"
    [] cause = "verdict" -> "invalid_selector"
    [] cause \in {"error", "throw", "rejected"} -> "error"

\* C12: a pre-click whose click times out is classified ElementNotFound, one
\* whose click fails otherwise is classified Error, one whose selector the
\* checker rejects is classified InvalidSelector; and when exactly one entry
\* of clickBefore has failed, getContent fails with exactly that status.
C12_SinglePreClickFailureStatus ==
  \A r \in Reqs :
    IsGetContent(r) /\ obs[r].clickFailed =>
      /\ local[r].clickErr.class = "ScrapingError"
      /\ local[r].clickErr.status = C12_Classified(obs[r].lastFailure)
      /\ Done(r) /\ obs[r].failures = 1 =>
           /\ Failed(r)
           /\ result[r].value.class = "ScrapingError"
           /\ result[r].value.status = C12_Classified(obs[r].lastFailure)
           /\ result[r].value.selector \in
                {req[r].clickBefore.list[i] : i \in DOMAIN cpc[r]}

\* of two pre-clicks one succeeded and the click of the other timed out:
\* getContent has failed with ElementNotFound
C12_Witness ==
  \E r \in Reqs :
    /\ IsGetContent(r) /\ Done(r) /\ Failed(r)
    /\ Len(cpc[r]) = 2 /\ obs[r].failures = 1
    /\ obs[r].lastFailure = "timeout"
    /\ result[r].value.status = ScrapingStatus.ELEMENT_NOT_FOUND

\* the text read for the primary selector of request r was empty or null, or
\* the read timed out because the element does not exist
C13_NoUsableText(r) ==
  \/ obs[r].shot /\ local[r].content \in {"", Null}
  \/ /\ obs[r].textRead /\ ~obs[r].shot
     /\ local[r].error = TimeoutError

\* C13 as claimed: when validation, acquisition and all pre-clicks succeeded and the
\* text read for the primary selector is empty, null, or the element does
\* not exist, getContent fails with status NoContent, never with Success
\* nor with another status.
C13_EmptyTextIsNoContent ==
  \A r \in Reqs :
    IsGetContent(r) /\ Done(r) /\ C13_NoUsableText(r) =>
      /\ Failed(r)
      /\ result[r].value.class = "ScrapingError"
      /\ result[r].value.status = ScrapingStatus.NO_CONTENT

\* C13 as amended: in these three cases getContent never returns Success;
\* it fails with status NoContent, unless the screenshot, its read-back or
\* the deletion of the file, which come before the test of the text, failed
\* with an error other than a timeout: the status is then Error.
C13_EmptyTextIsNoContentOrIoError ==
  \A r \in Reqs :
    IsGetContent(r) /\ Done(r) /\ C13_NoUsableText(r) =>
      /\ Failed(r)
      /\ result[r].value.class = "ScrapingError"
      /\ result[r].value.selector = req[r].selector
      /\ result[r].value.status =
           IF local[r].error \notin {UNDEFINED, TimeoutError}
             THEN ScrapingStatus.ERROR
             ELSE ScrapingStatus.NO_CONTENT

\* the text was empty, the screenshot was taken, read back and deleted, and
\* getContent has failed with NoContent
C13_Witness ==
  \E r \in Reqs :
    /\ IsGetContent(r) /\ Done(r) /\ Failed(r)
    /\ local[r].content = "" /\ obs[r].wrote
    /\ local[r].imageAsBase64 # ""
    /\ local[r].error = UNDEFINED
    /\ result[r].value.status = ScrapingStatus.NO_CONTENT

\* C14: whenever getContent returns Success, the primary selector was
\* validated and is valid in the returned record, every defined entry of
\* clickBefore was validated and clicked without failure, the content is a
\* non-empty string, and the screenshot was captured, read back and returned
\* as a data URI starting with data:image/gif;base64, : no failed stage
\* yields Success.
C14_SuccessMeansEveryStageSucceeded ==
  \A r \in Reqs :
    IsGetContent(r) /\ Done(r) /\ Succeeded(r) =>
      /\ result[r].value.class = "ScrapedContent"
      /\ obs[r].primary = "ok" /\ obs[r].validated
      /\ CheckerAccepts(RuleText(obs[r].given.selector.path))
      /\ result[r].value.selector.status = SelectorStatus.VALID
      /\ result[r].value.selector.path = obs[r].given.selector.path
      /\ obs[r].acquired
      /\ ~obs[r].clickFailed /\ obs[r].failures = 0
      /\ local[r].clickErr = UNDEFINED /\ local[r].error = UNDEFINED
      /\ Len(cpc[r]) = Len(ClickList(obs[r].given))
      /\ \A i \in DOMAIN cpc[r] :
           /\ cpc[r][i] = "done"
           /\ req[r].clickBefore.list[i] # UNDEFINED =>
                /\ req[r].clickBefore.list[i].status = SelectorStatus.VALID
                /\ CheckerAccepts(RuleText(req[r].clickBefore.list[i].path))
                /\ obs[r].clicked
      /\ result[r].value.content \notin {"", Null, Undef}
      /\ result[r].value.content = local[r].content
      /\ obs[r].textRead /\ obs[r].shot /\ obs[r].wrote
      /\ result[r].value.screenshot[1] = "data:image/gif;base64,"
      /\ result[r].value.screenshot[2] = Base64(Png(r))

\* a request with two pre-clicks has returned Success
C14_Witness ==
  \E r \in Reqs :
    /\ IsGetContent(r) /\ Done(r) /\ Succeeded(r)
    /\ Len(cpc[r]) = 2
    /\ \A i \in DOMAIN cpc[r] : req[r].clickBefore.list[i] # UNDEFINED
    /\ result[r].value.content = "yeah baby"

\* the acquisition of the page of request r has failed: the cache was
\* read, the page was neither injected nor loaded and stored, and the
\* request is over
C15_AcquisitionFailed(r) ==
  /\ IsGetContent(r) /\ Done(r)
  /\ obs[r].cacheRead /\ ~obs[r].acquired

\* C15: when the page acquisition fails (the navigation times out, the
\* network fails, the cache read or write fails) getContent fails with
\* status Error; an acquisition timeout is not reported as NoContent or
\* ElementNotFound.
C15_AcquisitionFailureIsError ==
  \A r \in Reqs :
    C15_AcquisitionFailed(r) =>
      /\ Failed(r)
      /\ result[r].value.class = "ScrapingError"
      /\ result[r].value.status = ScrapingStatus.ERROR

\* C16: a request whose primary selector path is empty or undefined is
\* aborted with status InvalidSelector before any browser interaction: no
\* browser launch, no navigation, no click, no extraction.
C16_EmptyPathIsInvalidSelector ==
  \A r \in Reqs :
    /\ IsGetContent(r)
    /\ obs[r].given # UNDEFINED
    /\ obs[r].given.selector # UNDEFINED
    /\ obs[r].given.selector.path \in {EmptyPath, Undef}
    /\ obs[r].given.selector.language \in {"css", Undef}
    /\ obs[r].primary # "throw"
    => /\ ~obs[r].launched /\ ~obs[r].navigated /\ ~obs[r].injected
       /\ ~obs[r].clicked /\ ~obs[r].textRead /\ ~obs[r].shot
       /\ Done(r) =>
            /\ Failed(r)
            /\ result[r].value.class = "ScrapingError"
            /\ result[r].value.status = ScrapingStatus.INVALID_SELECTOR

\* the status of the failure the catch block of request r was entered with
C17_OriginalStatus(r) ==
  IF IsScrapingError(local[r].error)
    THEN local[r].error.status
    ELSE ScrapingStatus.ERROR

\* C17: a failure to delete the screenshot file never changes the outcome
\* of getContent: a request whose content was non-empty and whose screenshot
\* was captured and read back returns Success even when the deletion fails,
\* and a failing request keeps the status of its original failure.
C17_DeletionFailureChangesNothing ==
  \A r \in Reqs :
    IsGetContent(r) /\ Done(r) =>
      /\ (/\ Truthy(local[r].content)
          /\ obs[r].wrote /\ local[r].imageAsBase64 # "")
         => /\ Succeeded(r)
            /\ result[r].value.content = local[r].content
      /\ (/\ local[r].error # UNDEFINED
          /\ ~IsTimeoutError(local[r].error)
          /\ ~(obs[r].wrote /\ local[r].imageAsBase64 # ""))
         => /\ Failed(r)
            /\ result[r].value.status = C17_OriginalStatus(r)

\* C18: the screenshot file is private to its request under every
\* interleaving of concurrent requests, two requests for the same address
\* included: between the moment a request has written its screenshot and
\* the moment it deletes it, the file holds what that request wrote, and a
\* request that succeeds returns its own screenshot.
C18_ScreenshotFileIsPrivate ==
  \A r \in Reqs :
    IsGetContent(r) =>
      /\ pc[r] \in {"readFile", "unlink"} =>
           files[ScreenshotPath(req[r].url)] = Png(r)
      /\ Done(r) /\ Succeeded(r) =>
           result[r].value.screenshot = DataUri(Base64(Png(r)))

\* an operation of request r on the browser has exceeded the timeout
C19_TimedOut(r) == local[r].error = TimeoutError \/ obs[r].clickTimedOut

\* C19: if every external operation eventually returns or fails, every
\* getContent request eventually reaches a terminal outcome, Succeeded or
\* Failed; and a request one of whose browser operations exceeded the
\* timeout ends in a classified failure.
C19_EveryRequestTerminates ==
  \A r \in Reqs :
    IsGetContent(r) ~>
      (/\ IsGetContent(r) /\ Done(r) /\ (Succeeded(r) \/ Failed(r))
       /\ C19_TimedOut(r) =>
            /\ Failed(r)
            /\ result[r].value.class = "ScrapingError"
            /\ result[r].value.status \in FailureStatuses)

\* a request has ended in NoContent after its pre-click succeeded and the
\* read of the text timed out
C19_Witness ==
  \E r \in Reqs :
    /\ IsGetContent(r) /\ Done(r) /\ Failed(r)
    /\ obs[r].clicked /\ obs[r].textRead
    /\ local[r].error = TimeoutError
    /\ result[r].value.status = ScrapingStatus.NO_CONTENT

\* C20: getContent mutates the caller's request only by writing the
\* enriched selector back on success: when the request has failed, every
\* field of the request object, the status of the primary selector and of
\* each clickBefore selector included, is as it was at call time.
C20_FailedRequestIsUnchanged ==
  \A r \in Reqs :
    /\ IsGetContent(r) /\ Done(r) /\ Failed(r)
    /\ result[r].value.class = "ScrapingError"
    => req[r] = obs[r].given

\* the read of the text of request r timed out
C25_TextReadTimedOut(r) ==
  /\ obs[r].textRead
  /\ local[r].content = Undef
  /\ local[r].error = TimeoutError

\* C25: the text of the primary selector is read, and the read has
\* completed, before the screenshot capture starts; in a request whose text
\* read timed out no screenshot capture is started and no screenshot file
\* is written.
C25_TextIsReadBeforeScreenshot ==
  \A r \in Reqs :
    IsGetContent(r) =>
      /\ pc[r] = "textContent" => ~obs[r].shot /\ ~obs[r].wrote
      /\ obs[r].shot =>
           /\ obs[r].textRead
           /\ local[r].content \in TextContents
      /\ obs[r].wrote => obs[r].shot
      /\ C25_TextReadTimedOut(r) =>
           /\ ~obs[r].shot /\ ~obs[r].wrote
           /\ Done(r) /\ Failed(r)

\* the read of the text timed out after a pre-click, on a page served from
\* the cache
C25_Witness ==
  \E r \in Reqs :
    /\ IsGetContent(r) /\ Done(r)
    /\ C25_TextReadTimedOut(r)
    /\ obs[r].clicked /\ obs[r].injected

\* C26: the pre-clicks of a request are joined before the request goes on:
\* neither the extraction nor the failure return happens while a pre-click
\* (its validation, its click or its pause) is in progress, even when
\* another pre-click of the request has failed already.
C26_PreClicksAreJoined ==
  \A r \in Reqs :
    IsGetContent(r) =>
      /\ (\E i \in DOMAIN cpc[r] : cpc[r][i] # "done") =>
           /\ pc[r] = "clickBefore"
           /\ result[r] = Pending
           /\ ~obs[r].textRead /\ ~obs[r].shot
      /\ (Done(r) \/ obs[r].textRead \/ pc[r] = "catch:unlink") =>
           \A i \in DOMAIN cpc[r] : cpc[r][i] = "done"

\* a pre-click has failed while the pause of another one is going on, and
\* the request has not returned
C26_Witness ==
  \E r \in Reqs :
    /\ IsGetContent(r) /\ obs[r].clickFailed
    /\ pc[r] = "clickBefore" /\ result[r] = Pending
    /\ \E i \in DOMAIN cpc[r] : cpc[r][i] = "pause"

\* C27: when several entries of clickBefore fail, getContent fails with
\* the failure of the entry whose callback completed last in time, whatever
\* its position in the list: its selector and its status are the ones
\* returned.
C27_LastFailureInTimeWins ==
  \A r \in Reqs :
    IsGetContent(r) /\ Done(r) /\ obs[r].failures >= 1 =>
      /\ Failed(r)
      /\ result[r].value = local[r].clickErr
      /\ result[r].value.status = C12_Classified(obs[r].lastFailure)
      /\ result[r].value.selector = req[r].clickBefore.list[obs[r].lastFailed]

\* the request whose first pre-click is rejected by the checker and whose
\* second pre-click runs into a click that times out
C27_TwoFailures(r) ==
  /\ IsGetContent(r) /\ Done(r)
  /\ obs[r].failures = 2
  /\ obs[r].given.clickBefore.present
  /\ obs[r].given.clickBefore.list =
       <<DataSelector(BadPath, "css", SelectorStatus.VALID),
         DataSelector(PopupPath, Undef, Undef)>>

\* both pre-clicks failed and the first of the list completed last: the
\* request fails with InvalidSelector, the status of the first entry
C27_Witness ==
  \E r \in Reqs :
    /\ C27_TwoFailures(r)
    /\ obs[r].lastFailed = 1
    /\ result[r].value.status = ScrapingStatus.INVALID_SELECTOR

\* the same request under another interleaving: the second of the list
\* completed last and the request fails with ElementNotFound
C27_WitnessOtherOrder ==
  \E r \in Reqs :
    /\ C27_TwoFailures(r)
    /\ obs[r].lastFailed = 2
    /\ result[r].value.status = ScrapingStatus.ELEMENT_NOT_FOUND

\* the settle pause of a pre-click of request r is going on, and it has not
\* elapsed with this step
C28_Pausing(r) ==
  \E i \in DOMAIN cpc[r] \cap DOMAIN cpc'[r] :
    cpc[r][i] = "pause" /\ cpc'[r][i] = "pause"

\* C28: after each successful pre-click nothing more is done on the page
\* until the 500 ms pause of that click has elapsed: during the pause no
\* other pre-click starts its click and the extraction does not start.
C28_NoPageUseDuringPause ==
  [][\A r \in Reqs :
       IsGetContent(r) /\ C28_Pausing(r) =>
         /\ \A j \in DOMAIN cpc[r] \cap DOMAIN cpc'[r] :
              cpc[r][j] # "click" => cpc'[r][j] # "click"
         /\ pc'[r] # "textContent"]_vars

\* a pre-click is in its pause while the click of another one is under way
C28_ClickDuringPause ==
  \E r \in Reqs :
    /\ IsGetContent(r)
    /\ \E i, j \in DOMAIN cpc[r] :
         cpc[r][i] = "pause" /\ cpc[r][j] = "click"

\* request r stores its markup with this step
C29_Stores(r) ==
  /\ pc[r] = "cache.set"
  /\ pc'[r] = "waitForTimeout"

\* C29: when two requests for the same uncached host and path run
\* concurrently, each one works on the page it has fetched itself, and every
\* store replaces the whole entry by the markup of the request that stores:
\* the entry is at every moment the complete markup fetched by the last
\* writer, never a mixture of the two.
C29_LastWriterWins ==
  /\ [](/\ \A k \in CacheKeys : cache[k] \in Markups \cup {NoEntry}
        /\ (\A r \in Reqs : IsGetContent(r) /\ Done(r) /\ obs[r].cacheWritten)
             /\ req[1].url = req[2].url
           => cache[CacheKey(req[1].url)] \in {local[1].page, local[2].page})
  /\ [][/\ \A r \in Reqs :
             C29_Stores(r) =>
               /\ local[r].page \in Markups
               /\ cache' = [cache EXCEPT ![CacheKey(req[r].url)] =
                              local[r].page]
               /\ local'[r].page = local[r].page
        /\ (\A r \in Reqs : ~C29_Stores(r)) => cache' = cache
        /\ \A r \in Reqs :
             obs[r].navigated /\ local[r].page # NoPage =>
               local'[r].page \in {local[r].page, NoPage}]_vars

\* both requests missed the cache, fetched different markups and stored
\* them, and both have finished; the entry is the markup of the second one
C29_Witness ==
  /\ \A r \in Reqs :
       /\ IsGetContent(r) /\ Done(r)
       /\ obs[r].navigated /\ obs[r].cacheWritten
  /\ req[1].url = req[2].url
  /\ local[1].page # local[2].page
  /\ cache[CacheKey(req[2].url)] = local[2].page

\* the page of request r has been handed to the stages after the acquirer
C30_HandedOn(r) ==
  \/ obs[r].acquired
  \/ obs[r].clickStarted \/ obs[r].textRead \/ obs[r].shot

\* C30: on a cache miss the entry is written only after the navigation and
\* the read-back of the markup have succeeded, and before the page is handed
\* to the later stages; when the navigation or the read-back fails the cache
\* is left as it was, and on a cache hit the cache is never written.
C30_CacheWrittenOnlyAfterFetch ==
  /\ [](\A r \in Reqs :
          IsGetContent(r) =>
            /\ obs[r].navigated /\ C30_HandedOn(r) => obs[r].cacheWritten
            /\ obs[r].injected => ~obs[r].cacheWritten
            /\ obs[r].navigated /\ Done(r) /\ ~obs[r].cacheWritten =>
                 /\ Failed(r)
                 /\ cache[CacheKey(req[r].url)] = NoEntry)
  /\ [][cache' # cache =>
          \E r \in Reqs :
            /\ pc[r] = "cache.set" /\ pc'[r] = "waitForTimeout"
            /\ obs[r].navigated /\ ~obs[r].injected
            /\ ~C30_HandedOn(r)
            /\ local[r].page \in Markups
            /\ local[r].cachedHtml = local[r].page
            /\ cache' = [cache EXCEPT ![CacheKey(req[r].url)] =
                           local[r].page]]_vars

\* the read-back of the markup failed after a navigation that succeeded:
\* the request has failed and there is no entry for its address
C30_Witness ==
  \E r \in Reqs :
    /\ IsGetContent(r) /\ Done(r) /\ Failed(r)
    /\ obs[r].navigated /\ ~obs[r].cacheWritten
    /\ local[r].page \in Markups
    /\ local[r].cachedHtml = Undef
    /\ cache[CacheKey(req[r].url)] = NoEntry

\* the backend has just answered a click on the evaluation button of
\* SelectorConfig with a response whose status is success
C21_SuccessfulEvaluation ==
  /\ selectorConfig.mounted
  /\ selectorConfig.event.name = "response"
  /\ selectorConfig.event.response.status = ScrapingStatus.SUCCESS

\* C21: for each click on the evaluation button whose response has status
\* success, onConfigured is called exactly once, with the data object of the
\* component in which the selector is the one of the response (with its
\* status), onError is not called, and the response is shown as the
\* preview; no other event of the component calls onConfigured.
C21_SuccessCallsOnConfiguredOnce ==
  selectorConfig.mounted =>
    LET c == selectorConfig
    IN  /\ C21_SuccessfulEvaluation =>
             /\ c.event.onConfigured =
                  <<[c.event.data EXCEPT
                       !.selector = c.event.response.selector]>>
             /\ c.event.response.selector.status = SelectorStatus.VALID
             /\ c.event.onError = 0
             /\ c.event.onChange = <<>>
             /\ c.evaluation = c.event.response
             /\ ~c.isLoading /\ c.pending = UNDEFINED
        /\ c.event.name # "response" => c.event.onConfigured = <<>>
        /\ c.pending # UNDEFINED => c.isLoading /\ c.evaluation = UNDEFINED

\* a successful evaluation made with the popup switch on: the data object
\* handed to onConfigured is the one the parent holds
C21_Witness ==
  /\ C21_SuccessfulEvaluation
  /\ selectorConfig.isPopup
  /\ selectorConfig.event.onConfigured = <<selectorConfig.data>>
  /\ selectorConfig.data.selector =
       DataSelector(GoodPath, "css", SelectorStatus.VALID)

\* the data objects handed to the parent during the last event
C22_Conveyed ==
  {selectorConfig.event.onChange[i] :
     i \in DOMAIN selectorConfig.event.onChange}
  \cup {selectorConfig.event.onConfigured[i] :
          i \in DOMAIN selectorConfig.event.onConfigured}

\* C22: the popup selector is never conveyed into the data: whatever the
\* edits, the toggles of the switch and the evaluations, the data object
\* handed to the parent through onChange or onConfigured has the primary
\* selector (or the copy of it the backend has returned) as its selector,
\* never the popup selector, and it has no clickBefore field.
C22_PopupSelectorNeverConveyed ==
  selectorConfig.mounted =>
    LET c == selectorConfig
    IN  /\ \A d \in C22_Conveyed : DOMAIN d = {"name", "selector"}
        /\ \A i \in DOMAIN c.event.onChange :
             c.event.onChange[i].selector = c.selector
        /\ \A i \in DOMAIN c.event.onConfigured :
             c.event.onConfigured[i].selector = c.event.response.selector

\* C23: validateCssSelector is debounced: for the calls of a burst, each of
\* which follows the one before by less than 1000 ms, at most one message
\* 'scraping:validate-css-selector' is emitted to the backend.
C23_OneMessagePerBurst ==
  debounced.burst.emitted <= 1

\* C24: in CSSSelector, onError is called only when the evaluation has not
\* succeeded and the user has not bypassed it; when the bypass switch is on,
\* onConfigured is called and onError is not; and no run of the effect
\* calls both callbacks.
C24_OneCallbackPerEffectRun ==
  cssSelector.mounted =>
    \A i \in DOMAIN cssSelector.runs :
      LET run == cssSelector.runs[i]
      IN  /\ run.onError > 0 =>
               /\ run.evaluationStatus # "success"
               /\ ~run.isByPassEvaluation
          /\ run.isByPassEvaluation =>
               run.onConfigured > 0 /\ run.onError = 0
          /\ ~(run.onError > 0 /\ run.onConfigured > 0)

\* request r has a clickBefore list whose entries are all undefined, as
\* `evaluate` sends when no popup selector is set
C31_OnlyUndefinedEntries(r) ==
  /\ IsGetContent(r)
  /\ req[r] # UNDEFINED
  /\ req[r].clickBefore.present
  /\ req[r].clickBefore.list # <<>>
  /\ \A i \in DOMAIN req[r].clickBefore.list :
       req[r].clickBefore.list[i] = UNDEFINED

\* the entries of the clickBefore of request r that are defined and whose
\* path is undefined, once the pre-clicks of r have started
C31_WithoutPath(r) ==
  {i \in DOMAIN cpc[r] :
     /\ req[r].clickBefore.list[i] # UNDEFINED
     /\ req[r].clickBefore.list[i].path = Undef}

\* the pre-click stage of a request whose entries are all undefined does
\* nothing: no callback is ever suspended, no checker call, no click, no
\* pause and no failure is recorded for an entry, and the step that ends the
\* first pause goes on to the extraction exactly as it does for the request
\* without clickBefore
C31_UndefinedEntriesDoNothing ==
  /\ [](\A r \in Reqs :
          C31_OnlyUndefinedEntries(r) =>
            /\ pc[r] # "clickBefore"
            /\ \A i \in DOMAIN cpc[r] : cpc[r][i] = "done"
            /\ ~obs[r].clickStarted /\ ~obs[r].clicked
            /\ ~obs[r].clickFailed /\ obs[r].failures = 0
            /\ local[r].clickErr = UNDEFINED)
  /\ [][\A r \in Reqs :
          C31_OnlyUndefinedEntries(r) /\ pc[r] = "waitForTimeout" =>
            /\ pc'[r] = "textContent"
            /\ result'[r] = result[r] /\ local'[r] = local[r]
            /\ req'[r] = req[r]
            /\ obs'[r] = [obs[r] EXCEPT !.textRead = TRUE]
            /\ cache' = cache /\ files' = files]_vars

\* C31: an undefined entry of clickBefore causes no validation, no click,
\* no pause and no failure, a request whose clickBefore holds only undefined
\* entries goes on as the request without clickBefore does; and a request
\* that reaches its pre-clicks with a defined entry whose path is undefined
\* fails with status Error.
C31_UndefinedEntryIsSkipped ==
  /\ C31_UndefinedEntriesDoNothing
  /\ [](\A r \in Reqs :
          IsGetContent(r) /\ Done(r) /\ C31_WithoutPath(r) # {} =>
            /\ Failed(r)
            /\ result[r].value.status = ScrapingStatus.ERROR)

\* C31 as amended: the request with a defined entry whose path is undefined
\* fails; it fails with status Error and that entry's selector when that
\* entry is the one whose failure came last, and with status Error when no
\* other entry has failed.
C31_UndefinedEntryIsSkippedLastFailureWins ==
  /\ C31_UndefinedEntriesDoNothing
  /\ [](\A r \in Reqs :
          IsGetContent(r) /\ Done(r) /\ C31_WithoutPath(r) # {} =>
            /\ Failed(r)
            /\ obs[r].failures >= 1
            /\ obs[r].failures = 1 =>
                 result[r].value.status = ScrapingStatus.ERROR
            /\ obs[r].lastFailed \in C31_WithoutPath(r) =>
                 /\ result[r].value.status = ScrapingStatus.ERROR
                 /\ result[r].value.selector =
                      req[r].clickBefore.list[obs[r].lastFailed])

\* a request with an entry without path and an entry the checker rejected
\* afterwards has failed with InvalidSelector
C31_Witness ==
  \E r \in Reqs :
    /\ IsGetContent(r) /\ Done(r) /\ Failed(r)
    /\ C31_WithoutPath(r) = {1}
    /\ obs[r].lastFailed = 2
    /\ result[r].value.status = ScrapingStatus.INVALID_SELECTOR

\* a request whose clickBefore is a list of undefined entries has succeeded
C31_WitnessOnlyUndefined ==
  \E r \in Reqs :
    /\ C31_OnlyUndefinedEntries(r) /\ Done(r) /\ Succeeded(r)
    /\ Len(cpc[r]) = 2

\* C32: every failure getContent returns carries the selector that caused
\* it: the selector of the clickBefore entry whose failure is returned, not
\* the primary one, when a pre-click has failed, and the primary selector of
\* the request when its validation or its extraction has failed.
C32_FailureCarriesItsSelector ==
  \A r \in Reqs :
    /\ IsGetContent(r) /\ Done(r) /\ Failed(r)
    /\ result[r].value.class = "ScrapingError"
    /\ req[r] # UNDEFINED
    => IF obs[r].clickFailed
         THEN /\ result[r].value.selector =
                   req[r].clickBefore.list[obs[r].lastFailed]
              /\ result[r].value.selector # req[r].selector
         ELSE result[r].value.selector = req[r].selector

\* the same for the requests whose primary selector has a path
C32_FailureCarriesItsSelectorUnlessNoPath ==
  \A r \in Reqs :
    /\ IsGetContent(r) /\ Done(r) /\ Failed(r)
    /\ result[r].value.class = "ScrapingError"
    /\ ~InvalidCall(req[r])
    => IF obs[r].clickFailed
         THEN /\ result[r].value.selector =
                   req[r].clickBefore.list[obs[r].lastFailed]
              /\ result[r].value.selector # req[r].selector
         ELSE result[r].value.selector = req[r].selector

\* a request whose primary selector has no path has failed with a failure
\* that carries no selector
C32_NoPathCarriesNoSelector ==
  \E r \in Reqs :
    /\ IsGetContent(r) /\ Done(r) /\ Failed(r)
    /\ req[r] # UNDEFINED /\ req[r].selector # UNDEFINED
    /\ req[r].selector.path = Undef
    /\ result[r].value.selector = UNDEFINED

\* a browser launched by the call on slot r stays open as long as the call
\* is tracked: no step of getContent or loadPage closes it, the number of
\* browsers of a call rises by one with the step that ends its launch and
\* with no other step, and a step of a call leaves the browsers of the other
\* calls alone
C33_NothingClosesABrowser ==
  [][\A r \in Reqs :
       IsGetContent(r) /\ ~(pc[r] = "done" /\ pc'[r] = "idle") =>
         /\ obs'[r].browsers >= obs[r].browsers
         /\ obs'[r].browsers # obs[r].browsers =>
              /\ pc[r] = "launch"
              /\ obs'[r].browsers = obs[r].browsers + 1
              /\ \A q \in Reqs \ {r} : obs'[q].browsers = obs[q].browsers]_vars

\* C33: each getContent request that reaches page acquisition launches
\* exactly one browser of its own, and nothing closes it: the number of open
\* browsers equals the number of requests that reached page acquisition,
\* whether they succeed or fail.
C33_OneOpenBrowserPerAcquisition ==
  /\ [](\A r \in Reqs :
          IsGetContent(r) /\ pc[r] # "launch" =>
            obs[r].browsers = IF obs[r].launched THEN 1 ELSE 0)
  /\ C33_NothingClosesABrowser

\* C33 as amended: a request launches at most one browser, none before it
\* reaches page acquisition and exactly one when its launch has succeeded
\* (it has gone on to the cache); nothing closes it, on success and on
\* every failure path alike.
C33_OneOpenBrowserPerLaunch ==
  /\ [](\A r \in Reqs :
          IsGetContent(r) =>
            /\ obs[r].browsers \in {0, 1}
            /\ ~obs[r].launched \/ pc[r] = "launch" => obs[r].browsers = 0
            /\ obs[r].cacheRead => obs[r].browsers = 1)
  /\ C33_NothingClosesABrowser

\* two requests running together have each a browser open; one has failed
\* after its launch, the other has succeeded
C33_Witness ==
  /\ \A r \in Reqs : IsGetContent(r) /\ Done(r) /\ obs[r].browsers = 1
  /\ Failed(1) /\ Succeeded(2)

\* a request has reached page acquisition and failed without a browser
C33_WitnessNoBrowser ==
  \E r \in Reqs :
    /\ IsGetContent(r) /\ Done(r) /\ Failed(r)
    /\ obs[r].launched /\ obs[r].browsers = 0

\* C34: in SelectorConfig a response whose status is not success calls
\* onError exactly once and does not call onConfigured; the backend-error
\* indicator is set by a response if and only if its status is error, the
\* click on evaluate clears it, and it never shows beside an evaluation
\* whose status is success, no-content, element-not-found or
\* invalid-selector.
C34_BackendErrorOnlyForErrorStatus ==
  selectorConfig.mounted =>
    LET c == selectorConfig
    IN  /\ c.event.name = "response" =>
             /\ c.event.response.status # ScrapingStatus.SUCCESS =>
                  /\ c.event.onError = 1
                  /\ c.event.onConfigured = <<>>
             /\ c.isBackendError =
                  (c.event.response.status = ScrapingStatus.ERROR)
        /\ c.event.name = "evaluateSelectorPath" => ~c.isBackendError
        /\ c.event.name # "response" => c.event.onError = 0
        /\ c.isBackendError /\ c.evaluation # UNDEFINED =>
             c.evaluation.status = ScrapingStatus.ERROR

\* an evaluation answered with element-not-found has called onError once and
\* shows without the indicator
C34_Witness ==
  /\ selectorConfig.mounted
  /\ selectorConfig.event.name = "response"
  /\ selectorConfig.event.response.status = ScrapingStatus.ELEMENT_NOT_FOUND
  /\ selectorConfig.event.onError = 1
  /\ ~selectorConfig.isBackendError

\* a step of SelectorConfig that emits a request to the backend
C35_Emits ==
  /\ selectorConfig.mounted
  /\ selectorConfig.pending = UNDEFINED
  /\ selectorConfig'.pending # UNDEFINED

\* C35: the popup selector goes with an evaluation only if the popup switch
\* is on when the evaluation button is clicked: with the switch off the
\* request carries an undefined popup selector, even when a popup selector
\* was entered before; with the switch on it carries the popup selector of
\* the component.
C35_PopupSelectorSentOnlyWhenSwitchedOn ==
  [][C35_Emits =>
       /\ selectorConfig'.event.name = "evaluateSelectorPath"
       /\ selectorConfig'.pending.request.clickBefore.list =
            << IF selectorConfig.isPopup THEN selectorConfig.popupSelector
                                         ELSE UNDEFINED >>]_vars

\* a request has just been emitted with the switch off and without popup
\* selector although a popup selector had been entered
C35_Witness ==
  /\ selectorConfig.mounted
  /\ selectorConfig.event.name = "evaluateSelectorPath"
  /\ selectorConfig.pending # UNDEFINED
  /\ ~selectorConfig.isPopup
  /\ selectorConfig.popupSelector # UNDEFINED
  /\ selectorConfig.popupSelector.path = PopupPath
  /\ selectorConfig.pending.request.clickBefore.list = <<UNDEFINED>>

\* the condition under which the evaluation button is meant to be enabled,
\* on the state the component shows
C36_Condition ==
  LET c == selectorConfig
  IN  /\ c.sampleUrl # Undef /\ isURL(c.sampleUrl)
      /\ c.selector # UNDEFINED
      /\ c.selector.status = SelectorStatus.VALID
      /\ c.isPopup /\ c.popupSelector # UNDEFINED =>
           c.popupSelector.status = SelectorStatus.VALID

\* C36: in SelectorConfig the evaluation button is enabled exactly when the
\* sample URL is defined and well-formed, the status of the primary selector
\* is valid and, with the popup switch on and a popup selector, the status
\* of the popup selector is valid too; and the button is never clicked
\* while the primary selector is invalid or not validated.
C36_ButtonEnabledExactlyWhenValid ==
  selectorConfig.mounted =>
    /\ selectorConfig.isEvaluationEnabled = C36_Condition
    /\ selectorConfig.event.name = "evaluateSelectorPath" =>
         /\ selectorConfig.selector # UNDEFINED
         /\ selectorConfig.selector.status = SelectorStatus.VALID

\* the component initiated with an undefined selector has its button
\* disabled
C36_DisabledWithoutSelector ==
  /\ selectorConfig.mounted
  /\ selectorConfig.event.name = "mount"
  /\ selectorConfig.data.selector = UNDEFINED
  => ~selectorConfig.isEvaluationEnabled

\* the component initiated with a valid selector and a well-formed address
\* shows its button disabled
C36_DisabledThoughValid ==
  /\ selectorConfig.mounted
  /\ selectorConfig.event.name = "mount"
  /\ C36_Condition
  /\ ~selectorConfig.isEvaluationEnabled

\* the button has been clicked while the primary selector is blank and not
\* validated
C36_ClickedWhileUnvalidated ==
  /\ selectorConfig.mounted
  /\ selectorConfig.event.name = "evaluateSelectorPath"
  /\ selectorConfig.selector = createSelector

\* SelectorConfig shows the spinner instead of the evaluation button
C37_Loading == selectorConfig.mounted /\ selectorConfig.isLoading

\* C37: in SelectorConfig the loading state never stays set forever: while
\* isLoading is true a request is on its way to the backend, and its
\* response sets isLoading back to false, so that the evaluation button
\* comes back after every click.
C37_LoadingAlwaysEnds ==
  /\ [](C37_Loading => selectorConfig.pending # UNDEFINED)
  /\ C37_Loading ~> ~C37_Loading

\* the loading state of a click that has emitted a request ends
C37_LoadingEndsWhenRequested ==
  (C37_Loading /\ selectorConfig.pending # UNDEFINED) ~> ~C37_Loading

\* a click has set isLoading and emitted nothing: the primary selector has
\* no path
C37_LoadingWithoutRequest ==
  /\ C37_Loading
  /\ selectorConfig.pending = UNDEFINED
  /\ selectorConfig.selector.path = Undef

\* the path of the selector being configured in CSSSelector is blank: both
\* the text of the input and the path of the selector object are
C38_PathBlank ==
  Blank(cssSelector.path) /\ Blank(cssSelector.object.path)

\* C38: in CSSSelector, whatever the input changes, blurs and effect runs,
\* the evaluate button is enabled only while the url and the path of the
\* selector being configured are not blank, and the validity-check button
\* only while the path is not blank: a button enabled before is disabled
\* again when the path input is cleared.
C38_ButtonsFollowUrlAndPath ==
  cssSelector.mounted =>
    /\ cssSelector.isEvaluationEnabled =>
         ~Blank(cssSelector.object.url) /\ ~C38_PathBlank
    /\ cssSelector.isCheckEnabled => ~C38_PathBlank

\* both buttons are enabled although the input has been cleared and the
\* path of the selector is blank
C38_EnabledWithBlankPath ==
  /\ cssSelector.mounted
  /\ C38_PathBlank /\ cssSelector.object.path = ""
  /\ cssSelector.isEvaluationEnabled /\ cssSelector.isCheckEnabled

\* the buttons are never disabled again
C38_EnabledForGood ==
  [][cssSelector.mounted =>
       /\ cssSelector.isEvaluationEnabled => cssSelector'.isEvaluationEnabled
       /\ cssSelector.isCheckEnabled => cssSelector'.isCheckEnabled]_vars

\* the element of ScrapingConfigurator has just changed
C39_ElementChanged ==
  /\ scrapingConfigurator.mounted
  /\ scrapingConfigurator.event.name = "element"

\* C39: in ScrapingConfigurator every change of the element to be
\* configured leaves the drawer open and the proposal cleared, whether the
\* drawer was open or closed before: a change of element never closes an
\* open drawer.
C39_ElementChangeOpensDrawer ==
  C39_ElementChanged =>
    /\ scrapingConfigurator.isDrawerOpen
    /\ scrapingConfigurator.proposal = Undef

\* what a change of element does: the proposal is cleared and the drawer is
\* toggled, open when it was closed and closed when it was open
C39_ElementChangeTogglesDrawer ==
  C39_ElementChanged =>
    /\ scrapingConfigurator.isDrawerOpen =
         ~scrapingConfigurator.event.wasOpen
    /\ scrapingConfigurator.proposal = Undef

\* a change of element has closed the drawer in which a selector had been
\* typed
C39_ClosedByElementChange ==
  /\ C39_ElementChanged
  /\ scrapingConfigurator.event.wasOpen
  /\ ~scrapingConfigurator.isDrawerOpen
  /\ scrapingConfigurator.selector = GoodPath

====
